---- MODULE Spec2Model ----
(***************************************************************************)
(* A model of the document retrieval subsystem of BUTLER                   *)
(* (src/rag_system.py, class RAGSystem) and of the generative backend      *)
(* client it calls (src/ollama_integration.py, class OllamaIntegration).   *)
(*                                                                         *)
(* Text is a sequence of one-character strings, so that splitting on       *)
(* whitespace, joining and slicing are computed as the Python code         *)
(* computes them.  Titles, departments and literal message parts are       *)
(* atomic strings: the code never looks inside them.                       *)
(***************************************************************************)
EXTENDS Integers, Sequences, FiniteSets, TLC

(***************************************************************************)
(* Bounds of the model.                                                    *)
(***************************************************************************)
\* process_document calls started in one behaviour
MaxIngest == 2
\* readings of the system clock that differ (datetime.now() values)
MaxClock == 1
\* dimensions of an embedding vector kept by the model
EmbedDim == 2
\* each coordinate of an embedding is a count reduced modulo EmbedMod
EmbedMod == 5
\* largest top_k a query asks for
MaxTopK == 2
\* longest list of retrieved results passed to answer_question
MaxDocs == 4
\* answer_question calls made in one behaviour
MaxAsk == 2
\* longest text, in characters, of the enumerated inputs of _chunk_text
MaxTextLen == 5
\* largest chunk size and overlap, in tokens, of the enumerated configurations
MaxChunkSize == 3
\* _chunk_text calls made on one text
MaxChunkCalls == 2
\* most entries of the variables mapping passed to generate_document
MaxVars == 2

(***************************************************************************)
(* Program constants.                                                      *)
(***************************************************************************)
\* self.chunk_size = 500
chunk_size == 500
\* self.chunk_overlap = 100
chunk_overlap == 100
\* doc['chunk'][:200]
SnippetLen == 200
\* context_docs[:3]
TopDocs == 3

(***************************************************************************)
(* Text helpers.                                                           *)
(***************************************************************************)
Min(a, b) == IF a < b THEN a ELSE b
Max(a, b) == IF a < b THEN b ELSE a

\* what Python's \s and str.split() treat as whitespace, within the alphabet
IsSpace(c) == c \in {" ", "\n", "\t"}

\* f[lo] \o f[lo+1] \o ... \o f[hi], for f a function to sequences
RECURSIVE FlatRange(_, _, _)
FlatRange(f, lo, hi) ==
    IF lo > hi THEN << >>
    ELSE IF lo = hi THEN f[lo]
    ELSE LET mid == (lo + hi) \div 2
         IN  FlatRange(f, lo, mid) \o FlatRange(f, mid + 1, hi)

\* seq[lo:hi] of Python, indices counted from 0, negative ones from the end
PySlice(seq, lo, hi) ==
    LET n  == Len(seq)
        l0 == IF lo < 0 THEN Max(n + lo, 0) ELSE Min(lo, n)
        h0 == IF hi < 0 THEN Max(n + hi, 0) ELSE Min(hi, n)
    IN  SubSeq(seq, l0 + 1, h0)

\* re.sub(r'\s+', ' ', text): every run of whitespace becomes one blank
CollapseWhitespace(text) ==
    FlatRange([i \in 1..Len(text) |->
                 IF IsSpace(text[i])
                 THEN (IF i > 1 /\ IsSpace(text[i - 1]) THEN << >> ELSE << " " >>)
                 ELSE << text[i] >>],
              1, Len(text))

\* text.split(): the maximal runs of non-whitespace, in order
SplitWords(text) ==
    LET n      == Len(text)
        starts == FlatRange([i \in 1..n |->
                     IF ~IsSpace(text[i]) /\ (i = 1 \/ IsSpace(text[i - 1]))
                     THEN << i >> ELSE << >>], 1, n)
        ends   == FlatRange([i \in 1..n |->
                     IF ~IsSpace(text[i]) /\ (i = n \/ IsSpace(text[i + 1]))
                     THEN << i >> ELSE << >>], 1, n)
    IN  [k \in 1..Len(starts) |-> SubSeq(text, starts[k], ends[k])]

\* ' '.join(words)
JoinWords(words) ==
    FlatRange([k \in 1..Len(words) |->
                 IF k = 1 THEN words[k] ELSE << " " >> \o words[k]],
              1, Len(words))

\* len(range(0, n, step)) for step > 0
RangeCount(n, step) == (n + step - 1) \div step

(***************************************************************************)
(* RAGSystem._chunk_text with the two parameters made explicit.  A zero    *)
(* step makes range() raise ValueError; a negative step gives an empty     *)
(* range and so an empty chunk list.                                       *)
(***************************************************************************)
\* a chunker whose windows start every `size` tokens
ChunkTextStepSize(text, size, overlap) ==
    LET words == SplitWords(CollapseWhitespace(text))
        cnt   == RangeCount(Len(words), size)
    IN  [raised |-> "none",
         chunks |-> [j \in 1..cnt |->
                        JoinWords(PySlice(words, (j - 1) * size, j * size))]]

\* a chunker that starts a window only where a whole step of tokens is left
ChunkTextWholeSteps(text, size, overlap) ==
    LET words == SplitWords(CollapseWhitespace(text))
        step  == size - overlap
    IN  IF step = 0 THEN [raised |-> "ValueError", chunks |-> << >>]
        ELSE IF step < 0 THEN [raised |-> "none", chunks |-> << >>]
        ELSE [raised |-> "none",
              chunks |-> [j \in 1..(Len(words) \div step) |->
                             JoinWords(PySlice(words, (j - 1) * step,
                                               (j - 1) * step + size))]]

ChunkText(text, size, overlap) ==
    LET words == SplitWords(CollapseWhitespace(text))
        step  == size - overlap
    IN  IF step = 0 THEN [raised |-> "ValueError", chunks |-> << >>]
        ELSE IF step < 0 THEN [raised |-> "none", chunks |-> << >>]
        ELSE LET cnt   == RangeCount(Len(words), step)
                 chunk == [j \in 1..cnt |->
                             JoinWords(PySlice(words, (j - 1) * step,
                                               (j - 1) * step + size))]
             IN  [raised |-> "none",
                  chunks |-> FlatRange([j \in 1..cnt |->
                                          IF chunk[j] = << >> THEN << >>
                                          ELSE << chunk[j] >>], 1, cnt)]

(***************************************************************************)
(* The files the ingestion calls name.  A path is its stem and its suffix  *)
(* (pathlib's Path.stem and Path.suffix); a file holds its parts: the      *)
(* pages of a PDF, the paragraphs of a DOCX, the content of a text file.   *)
(***************************************************************************)
PolicyTxt == [stem |-> "policy", suffix |-> ".txt"]
BriefPdf  == [stem |-> "brief", suffix |-> ".PDF"]
BlankDocx == [stem |-> "blank", suffix |-> ".docx"]
NotesCsv  == [stem |-> "notes", suffix |-> ".csv"]

Paths == {PolicyTxt, BriefPdf, BlankDocx, NotesCsv}

\* str.lower() on the suffixes in use
Lower(s) == IF s = ".PDF" THEN ".pdf" ELSE s

\* 2n-1 characters: n one-letter words, the k-th is letter[k], one blank between
WordsText(n, letter) ==
    [i \in 1..(2 * n - 1) |-> IF i % 2 = 0 THEN " " ELSE letter[(i + 1) \div 2]]

BriefPage1 == WordsText(200, [k \in 1..200 |-> IF k % 2 = 0 THEN "b" ELSE "a"])
BriefPage2 == WordsText(201, [k \in 1..201 |-> IF k % 3 = 0 THEN "b" ELSE "c"])
PolicyContent == << "a", "b", " ", " ", "c", "\n", "a", "b" >>

Disk ==
    [p \in Paths |->
        CASE p = PolicyTxt -> << PolicyContent >>
          [] p = BriefPdf  -> << BriefPage1, BriefPage2 >>
          [] p = BlankDocx -> << >>
          [] OTHER         -> << << "a" >> >>]

\* what can go wrong while a file is extracted:
\*   open  the file cannot be opened or parsed (it is missing or damaged)
\*   page  extract_text() raises on the last page of a PDF
ExtractFaults == {"none", "open", "page"}

\* RAGSystem._extract_pdf_text: text += page.extract_text() + "\n", page by
\* page; an exception ends the loop and the text gathered so far is returned
ExtractPdfText(path, fault) ==
    LET pages == CASE fault = "open" -> 0
                   [] fault = "page" -> Len(Disk[path]) - 1
                   [] OTHER          -> Len(Disk[path])
    IN  FlatRange([k \in 1..pages |-> Disk[path][k] \o << "\n" >>], 1, pages)

\* RAGSystem._extract_docx_text: "\n".join(paragraph texts), "" on an exception
ExtractDocxText(path, fault) ==
    IF fault # "none" THEN << >>
    ELSE FlatRange([k \in 1..Len(Disk[path]) |->
                      IF k = 1 THEN Disk[path][k]
                      ELSE << "\n" >> \o Disk[path][k]],
                   1, Len(Disk[path]))

\* await f.read() of the text file
ReadTextFile(path) == Disk[path][1]

\* a suffix test that accepts every file
SupportedSuffixAny(path) == TRUE

\* `file_ext` is one of the branches of process_document
SupportedSuffix(path) == Lower(path.suffix) \in {".pdf", ".docx", ".doc", ".txt"}

\* the extraction branch process_document takes for the suffix
ExtractText(path, fault) ==
    CASE Lower(path.suffix) = ".pdf"             -> ExtractPdfText(path, fault)
      [] Lower(path.suffix) \in {".docx", ".doc"} -> ExtractDocxText(path, fault)
      [] OTHER                                   -> ReadTextFile(path)

\* the extraction faults that can occur in the branch taken for a file: the
\* read of a text file has no handler, so none of its failures yields a content
FaultsOf(path) ==
    CASE Lower(path.suffix) = ".pdf" ->
             IF Len(Disk[path]) > 0 THEN ExtractFaults ELSE {"none", "open"}
      [] Lower(path.suffix) \in {".docx", ".doc"} -> {"none", "open"}
      [] OTHER -> {"none"}

\* an extraction: the file and what went wrong in it
Source(path, fault) == [path |-> path, fault |-> fault]

Sources == UNION { { Source(p, x) : x \in FaultsOf(p) } :
                      p \in {q \in Paths : SupportedSuffix(q)} }

\* the content process_document gets from each extraction; the files never
\* change, so every extraction is computed once
Content == [src \in Sources |-> ExtractText(src.path, src.fault)]

\* self._chunk_text(content) for the contents above, computed once each
Chunked == [src \in Sources |->
               ChunkText(Content[src], chunk_size, chunk_overlap)]

(***************************************************************************)
(* The embedding provider.  SentenceTransformer.encode is a fixed function *)
(* of the text; the model keeps EmbedDim coordinates, coordinate k being   *)
(* the number of occurrences of the k-th letter modulo EmbedMod.           *)
(***************************************************************************)
Letters == << "a", "b", "c", "d" >>

Embed(text) ==
    [k \in 1..EmbedDim |->
        Cardinality({i \in 1..Len(text) : text[i] = Letters[k]}) % EmbedMod]

\* self.embedder.encode(texts): one vector per text, in order
Encode(texts) == [i \in 1..Len(texts) |-> Embed(texts[i])]

\* self.embedder.encode(document.chunks), computed once per extraction
Encoded == [src \in Sources |-> Encode(Chunked[src].chunks)]

\* squared Euclidean distance of IndexFlatL2
L2(u, v) ==
    LET sq[k \in 0..EmbedDim] ==
            IF k = 0 THEN 0 ELSE sq[k - 1] + (u[k] - v[k]) * (u[k] - v[k])
    IN  sq[EmbedDim]

\* above every distance between two embeddings: the distance of a padding entry
FarDistance == EmbedDim * EmbedMod * EmbedMod + 1

(***************************************************************************)
(* Inputs of the calls.                                                    *)
(***************************************************************************)
\* Python's None where a string is expected
NoneStr == "<None>"

\* the process_document calls made: file_path, doc_type.value, department
\* (metadata is left to its default, None)
Calls == { [path |-> PolicyTxt, doc_type |-> "policy", department |-> "clerk"],
           [path |-> BriefPdf, doc_type |-> "court_document",
            department |-> "court"],
           [path |-> BlankDocx, doc_type |-> "form_template",
            department |-> "clerk"],
           [path |-> NotesCsv, doc_type |-> "policy", department |-> "court"] }

\* json.dumps(value): the serialized text, kept apart from the value itself
JsonDumps(value) == [json |-> value]

\* hashlib.md5(f"{file_path}{datetime.now()}").hexdigest(): one id per
\* (path, clock reading); different pairs give different ids
DocId(path, at) == [path |-> path, at |-> at]

(***************************************************************************)
(* State.                                                                  *)
(*   documents        rows of table documents, in insertion order          *)
(*   document_chunks  rows of table document_chunks, in insertion order    *)
(*   embedder         self.embedder: "None" until first use                *)
(*   vector_index     the vectors of self.vector_index, ordinal o at o + 1 *)
(*   index_file       the file document_vectors.index                      *)
(*   now              the reading of the system clock                      *)
(*   n_ingest         process_document calls started so far                *)
(*   tasks            process_document calls suspended reading their file  *)
(*   last             how the last finished process_document call ended:   *)
(*                    its place among the calls ended since the process    *)
(*                    started (seq) and among the calls begun (number),    *)
(*                    its file, the                                        *)
(*                    id it computed, the exception raised ("none" when it *)
(*                    returned), the statement that raised it, and what    *)
(*                    went wrong while its file was extracted              *)
(*   query            the arguments of the query_documents call just made  *)
(*   hits             what the index search of that call returned          *)
(*   results          what that call returned                              *)
(*   stats            what the get_document_stats call just made returned  *)
(* query, hits, results and stats are kept until the caller has taken      *)
(* them, or another operation starts.                                      *)
(***************************************************************************)
VARIABLES documents, document_chunks, embedder, vector_index, index_file,
          now, n_ingest, tasks, last, query, hits, results, stats

(***************************************************************************)
(* State of the answer synthesizer and of the backend client.              *)
(*   butler      self.butler of the RAGSystem: "None", a core without an   *)
(*               ai_engine attribute, or one with it                       *)
(*   session     self.session of the OllamaIntegration: "None" or "open"   *)
(*   ask         the answer_question call: where it stands, its arguments, *)
(*               and, once it has ended, what it returned or raised        *)
(*   request     the prompt of the request being made to the backend       *)
(*   reply       how the last generate_response call ended: what the       *)
(*               backend did, and the value returned to the caller         *)
(*   n_ask       answer_question calls started so far                      *)
(*   n_post      requests sent to /api/generate so far                     *)
(***************************************************************************)
VARIABLES butler, session, ask, request, reply, n_ask, n_post

(***************************************************************************)
(* State of the calls made on the chunker and on the document generator.   *)
(*   chunking    the text and the configuration (self.chunk_size,          *)
(*               self.chunk_overlap) _chunk_text is called with, and what  *)
(*               each call made so far returned or raised                  *)
(*   generation  the generate_document call: its arguments and how it      *)
(*               ended                                                     *)
(***************************************************************************)
VARIABLES chunking, generation

(***************************************************************************)
(* State of the HTTP interface.                                            *)
(*   api_call    the POST /api/generate_document request being served by   *)
(*               api_server.generate_document: its body, and once the      *)
(*               handler has returned, the status and the JSON it sent     *)
(***************************************************************************)
VARIABLES api_call

(***************************************************************************)
(* State of the WorkflowAutomation of intelligence_engine.py.              *)
(*   workflow_templates  self.workflow_templates: for each workflow type   *)
(*                       its list of step dicts and its total duration     *)
(*   instances           the workflow instance dicts created so far, in    *)
(*                       the order of their creation; the "steps" of an    *)
(*                       instance is a list of references to step dicts    *)
(*   active_workflows    self.active_workflows: the instance each          *)
(*                       workflow id maps to, as its position in instances *)
(*   step_tasks          the tasks created for _process_workflow_step      *)
(*   audit_trail         butler.audit_trail, as log_action appends to it   *)
(*   initiated           what the last initiate_workflow call returned     *)
(*   n_initiate          initiate_workflow calls made so far               *)
(***************************************************************************)
VARIABLES workflow_templates, instances, active_workflows, step_tasks,
          audit_trail, initiated, n_initiate

rag_vars == << documents, document_chunks, embedder, vector_index, index_file,
               now, n_ingest, tasks, last, query, hits, results, stats >>

answer_vars == << butler, session, ask, request, reply, n_ask, n_post >>

tool_vars == << chunking, generation >>

(***************************************************************************)
(* State of the conversation kept by the OllamaIntegration.                *)
(*   context_window  self.context_window: the messages kept, oldest first  *)
(*   chats           the get_contextual_response calls awaiting their      *)
(*                   generate_response, each with the prompt it built      *)
(*   n_chat          get_contextual_response calls made so far             *)
(***************************************************************************)
VARIABLES context_window, chats, n_chat

chat_vars == << context_window, chats, n_chat >>

workflow_vars == << workflow_templates, instances, active_workflows,
                    step_tasks, audit_trail, initiated, n_initiate >>

ext_vars == << api_call, workflow_vars, chat_vars >>

vars == << documents, document_chunks, embedder, vector_index, index_file,
           now, n_ingest, tasks, last, query, hits, results, stats,
           butler, session, ask, request, reply, n_ask, n_post,
           chunking, generation,
           api_call,
           workflow_templates, instances, active_workflows, step_tasks,
           audit_trail, initiated, n_initiate,
           context_window, chats, n_chat >>

NoCall == [seq |-> 0, number |-> 0, path |-> NotesCsv,
           id |-> DocId(NotesCsv, 0),
           raised |-> "none", stage |-> "none", extract |-> "none"]
NoQuery == [text |-> << >>, top_k |-> 0, department |-> NoneStr,
            doc_type |-> NoneStr]

\* no get_document_stats call made
NoStats == [total_documents |-> -1, indexed_documents |-> -1,
            total_chunks |-> -1, document_types |-> << >>,
            departments |-> << >>, index_size |-> -1]

\* the return value of the previous query_documents or get_document_stats
\* call is gone
ForgetQuery ==
    /\ query' = NoQuery
    /\ hits' = << >>
    /\ results' = << >>
    /\ stats' = NoStats

NoAsk == [pc |-> "idle", question |-> "", context_docs |-> << >>,
          use_ollama |-> FALSE, via |-> "none", answer |-> << >>,
          raised |-> "none", posts_before |-> 0]
NoReply == [outcome |-> "none", raised |-> "none", type |-> "none",
            content |-> << >>, model |-> "none"]

\* RAGSystem.__init__ on an empty working directory
InitRag ==
    /\ documents = << >>
    /\ document_chunks = << >>
    /\ embedder = "None"
    /\ vector_index = << >>
    /\ index_file = [exists |-> FALSE, vectors |-> << >>]
    /\ now = 0
    /\ n_ingest = 0
    /\ tasks = << >>
    /\ last = NoCall
    /\ query = NoQuery
    /\ hits = << >>
    /\ results = << >>
    /\ stats = NoStats

\* no answer_question call made, OllamaIntegration.__init__ done
InitAnswer ==
    /\ session = "None"
    /\ ask = NoAsk
    /\ request = << >>
    /\ reply = NoReply
    /\ n_ask = 0
    /\ n_post = 0

\* no _chunk_text call and no generate_document call made from outside
NoChunking == [text |-> << >>, size |-> chunk_size, overlap |-> chunk_overlap,
               returned |-> << >>]
NoGeneration == [pc |-> "idle", template_name |-> "", variables |-> << >>,
                 raised |-> "none", returned |-> [type |-> "None", text |-> << >>],
                 logged |-> << >>]

InitTools ==
    /\ chunking = NoChunking
    /\ generation = NoGeneration

\* no request received by the HTTP interface
NoBody == [kind |-> "none", has_template |-> FALSE, template |-> "",
           variables |-> << >>]
NoResponse == [success |-> FALSE, document |-> << >>, template_type |-> "",
               error |-> "none"]
NoApiCall == [pc |-> "idle", body |-> NoBody, status |-> "none",
              response |-> NoResponse]

\* one step dict of a workflow template, as _initialize_workflows writes it:
\* it has no "status" and no "completed" key yet
Absent == "<absent>"
StepDict(step, department, duration_hours) ==
    [step |-> step, department |-> department,
     duration_hours |-> duration_hours,
     status |-> Absent, completed |-> Absent]

\* WorkflowAutomation._initialize_workflows
InitialWorkflowTemplates ==
    [vendor_onboarding |->
        [steps |-> << StepDict("verify_credentials", "procurement", "2"),
                      StepDict("background_check", "security", "24"),
                      StepDict("insurance_verification", "risk_management", "4"),
                      StepDict("system_access_setup", "it", "1"),
                      StepDict("final_approval", "procurement", "1") >>,
         total_duration |-> "32"],
     citizen_complaint_resolution |->
        [steps |-> << StepDict("initial_triage", "customer_service", "1"),
                      StepDict("department_routing", "admin", "0.5"),
                      StepDict("investigation", "relevant_dept", "48"),
                      StepDict("resolution_proposal", "relevant_dept", "4"),
                      StepDict("citizen_notification", "customer_service", "1") >>,
         total_duration |-> "54.5"]]

\* WorkflowAutomation.__init__, and a butler core with an empty audit trail
InitWorkflows ==
    /\ workflow_templates = InitialWorkflowTemplates
    /\ instances = << >>
    /\ active_workflows = << >>
    /\ step_tasks = << >>
    /\ audit_trail = << >>
    /\ initiated = NoneStr
    /\ n_initiate = 0

\* OllamaIntegration.__init__: an empty context window, no call made
InitContext ==
    /\ context_window = << >>
    /\ chats = << >>
    /\ n_chat = 0

InitExt ==
    /\ api_call = NoApiCall
    /\ InitWorkflows
    /\ InitContext

\* RAGSystem() as constructed with its default argument, butler_core = None
Init ==
    /\ InitRag
    /\ InitAnswer
    /\ InitTools
    /\ InitExt
    /\ butler = "None"

(***************************************************************************)
(* Ingestion: RAGSystem.process_document and what it calls.                *)
(***************************************************************************)
\* faiss.read_index(path)
ReadIndex(file) == file.vectors

\* faiss.write_index(index, path)
WriteIndex(index) == [exists |-> TRUE, vectors |-> index]

\* an add that puts the new vectors in front of the ones already held
IndexAddInFront(index, vectors) == vectors \o index

\* IndexFlatL2.add(vectors): the new vectors follow the ones already held
IndexAdd(index, vectors) == index \o vectors

\* an initialization that always creates a new, empty index
InitializeEmbedderFresh(file) == << >>

\* RAGSystem._initialize_embedder: the index self.vector_index names after it
InitializeEmbedder(file) == IF file.exists THEN ReadIndex(file) ELSE << >>

\* the index in use once `if self.embedder is None: self._initialize_embedder()` ran
LoadedIndex == IF embedder = "None" THEN InitializeEmbedder(index_file)
               ELSE vector_index

\* the Document object process_document builds
NewDocument(call, src, at) ==
    [id          |-> DocId(call.path, at),
     title       |-> call.path.stem,
     content     |-> Content[src],
     doc_type    |-> call.doc_type,
     department  |-> call.department,
     upload_date |-> at,
     metadata    |-> << >>,
     chunks      |-> Chunked[src].chunks]

\* a row inserted with the indexed flag already set
DocumentRowIndexed(document) ==
    [id          |-> document.id,
     title       |-> document.title,
     content     |-> document.content,
     doc_type    |-> document.doc_type,
     department  |-> document.department,
     upload_date |-> document.upload_date,
     metadata    |-> JsonDumps(document.metadata),
     chunks      |-> JsonDumps(document.chunks),
     indexed     |-> TRUE]

\* the row RAGSystem._store_document inserts
DocumentRow(document) ==
    [id          |-> document.id,
     title       |-> document.title,
     content     |-> document.content,
     doc_type    |-> document.doc_type,
     department  |-> document.department,
     upload_date |-> document.upload_date,
     metadata    |-> JsonDumps(document.metadata),
     chunks      |-> JsonDumps(document.chunks),
     indexed     |-> FALSE]

\* RAGSystem._store_document: a plain INSERT into a table whose id is the
\* PRIMARY KEY; sqlite3 raises IntegrityError when the id is already there
StoreDocument(rows, document) ==
    IF \E r \in 1..Len(rows) : rows[r].id = document.id
    THEN [raised |-> "IntegrityError", rows |-> rows]
    ELSE [raised |-> "none", rows |-> Append(rows, DocumentRow(document))]

\* the chunk rows inserted from the last chunk to the first
ChunkRowsReversed(document, embeddings) ==
    [i \in 1..Len(document.chunks) |->
        LET j == Len(document.chunks) + 1 - i
        IN  [chunk_id    |-> << document.id, "_chunk_", j - 1 >>,
             doc_id      |-> document.id,
             chunk_index |-> j - 1,
             chunk_text  |-> document.chunks[j],
             embedding   |-> embeddings[j]]]

\* the rows RAGSystem._index_document inserts into document_chunks
ChunkRows(document, embeddings) ==
    [i \in 1..Len(document.chunks) |->
        [chunk_id    |-> << document.id, "_chunk_", i - 1 >>,
         doc_id      |-> document.id,
         chunk_index |-> i - 1,
         chunk_text  |-> document.chunks[i],
         embedding   |-> embeddings[i]]]

\* the UPDATE without its WHERE clause
MarkIndexedAll(rows, id) ==
    [r \in 1..Len(rows) |-> [rows[r] EXCEPT !.indexed = TRUE]]

\* UPDATE documents SET indexed = 1 WHERE id = ?
MarkIndexed(rows, id) ==
    [r \in 1..Len(rows) |->
        IF rows[r].id = id THEN [rows[r] EXCEPT !.indexed = TRUE] ELSE rows[r]]

\* what the environment can make go wrong in one process_document call: the
\* embedding call raises, or the extraction of the file fails
Faults == {"none", "encode"} \cup ExtractFaults

\* the extraction fault of a call
ExtractFault(fault) == IF fault \in ExtractFaults THEN fault ELSE "none"

(***************************************************************************)
(* process_document from the creation of the Document object to its        *)
(* return.  Nothing in this stretch suspends: _store_document and          *)
(* _index_document are coroutines without an await of their own, so the    *)
(* event loop runs no other task in between.                               *)
(*   - _store_document commits the document row, or raises;                *)
(*   - encode raises when the fault is injected;                           *)
(*   - IndexFlatL2.add raises on the array encode returns for an empty     *)
(*     chunk list (its shape has one dimension, add unpacks two);          *)
(*   - otherwise the vectors are added, the index is written to its file,  *)
(*     the chunk rows are inserted and the document is marked indexed.     *)
(***************************************************************************)
Ingest(call, src, fault) ==
    LET document == NewDocument(call, src, now)
        stored   == StoreDocument(documents, document)
        vectors  == Encoded[src]
        added    == IndexAdd(LoadedIndex, vectors)
        ended(e, at) == [seq |-> last.seq + 1, number |-> call.number,
                         path |-> call.path,
                         id |-> document.id, raised |-> e, stage |-> at,
                         extract |-> src.fault]
    IN  /\ embedder' = "MiniLM"
        /\ IF stored.raised # "none"
           THEN /\ last' = ended(stored.raised, "store")
                /\ vector_index' = LoadedIndex
                /\ UNCHANGED << documents, document_chunks, index_file >>
           ELSE IF fault = "encode" \/ document.chunks = << >>
           THEN /\ last' = IF fault = "encode"
                           THEN ended("RuntimeError", "encode")
                           ELSE ended("ValueError", "add")
                /\ documents' = stored.rows
                /\ vector_index' = LoadedIndex
                /\ UNCHANGED << document_chunks, index_file >>
           ELSE /\ last' = ended("none", "none")
                /\ vector_index' = added
                /\ index_file' = WriteIndex(added)
                /\ document_chunks' =
                       document_chunks \o ChunkRows(document, vectors)
                /\ documents' = MarkIndexed(stored.rows, document.id)

\* the n-th process_document call made: in `last`, seq
\* counts the calls in the order they ended, number in the order they began
Numbered(call, n) ==
    [path |-> call.path, doc_type |-> call.doc_type,
     department |-> call.department, number |-> n]

\* process_document up to its first suspension: an unsupported suffix raises
\* ValueError; a text file is read through aiofiles, which suspends the call;
\* a PDF or DOCX is extracted without suspending, a failure of the extraction
\* is caught in the extraction method, and the call runs to its end
ProcessDocument(call, fault) ==
    /\ n_ingest < MaxIngest
    /\ n_ingest' = n_ingest + 1
    /\ ForgetQuery
    /\ UNCHANGED << now, answer_vars, tool_vars, ext_vars >>
    /\ IF ~SupportedSuffix(call.path)
       THEN /\ fault = "none"
            /\ last' = [seq |-> last.seq + 1, number |-> n_ingest + 1,
                        path |-> call.path,
                        id |-> DocId(call.path, now), raised |-> "ValueError",
                        stage |-> "suffix", extract |-> "none"]
            /\ UNCHANGED << documents, document_chunks, embedder, vector_index,
                            index_file, tasks >>
       ELSE IF Lower(call.path.suffix) = ".txt"
       THEN /\ fault = "none"
            /\ tasks' = Append(tasks, Numbered(call, n_ingest + 1))
            /\ UNCHANGED << documents, document_chunks, embedder, vector_index,
                            index_file, last >>
       ELSE /\ ExtractFault(fault) \in FaultsOf(call.path)
            /\ Ingest(Numbered(call, n_ingest + 1),
                      Source(call.path, ExtractFault(fault)), fault)
            /\ UNCHANGED tasks

\* a suspended process_document call is resumed: the read of its file has
\* raised (no such file, or bytes that are not UTF-8) and the exception leaves
\* process_document, or the call has the content and runs to its end
ResumeDocument(t, fault) ==
    /\ t \in 1..Len(tasks)
    /\ fault # "page"
    /\ tasks' = [i \in 1..(Len(tasks) - 1) |->
                    IF i < t THEN tasks[i] ELSE tasks[i + 1]]
    /\ IF fault = "open"
       THEN /\ last' = [seq |-> last.seq + 1, number |-> tasks[t].number,
                        path |-> tasks[t].path,
                        id |-> DocId(tasks[t].path, now),
                        raised |-> "FileNotFoundError", stage |-> "read",
                        extract |-> "open"]
            /\ UNCHANGED << documents, document_chunks, embedder, vector_index,
                            index_file >>
       ELSE Ingest(tasks[t], Source(tasks[t].path, "none"), fault)
    /\ ForgetQuery
    /\ UNCHANGED << now, n_ingest, answer_vars, tool_vars, ext_vars >>

(***************************************************************************)
(* Retrieval: RAGSystem.query_documents.                                   *)
(***************************************************************************)
\* the query strings asked
Queries == { << "a", "b" >>, << "c", " ", "c", "a" >>, << "a", "b", " ", "b" >> }

\* the department and doc_type filters passed: None, or a value
DepartmentFilters == {NoneStr, "court"}
DocTypeFilters == {NoneStr, "policy"}

\* Python's truth value of an optional string argument
Truthy(x) == x # NoneStr /\ x # ""

\* the nearest-first orders of m vectors not yet taken: at each position one
\* of the remaining vectors at the smallest distance (which of several at the
\* same distance comes first is up to the library)
RECURSIVE NearestFirst(_, _, _, _)
NearestFirst(index, qv, taken, m) ==
    IF m = 0 THEN { << >> }
    ELSE LET rest == (0..(Len(index) - 1)) \ taken
             best == {o \in rest : \A p \in rest :
                         L2(index[o + 1], qv) <= L2(index[p + 1], qv)}
         IN  UNION { { << [idx |-> o, distance |-> L2(index[o + 1], qv)] >> \o h :
                        h \in NearestFirst(index, qv, taken \cup {o}, m - 1) } :
                     o \in best }

\* IndexFlatL2.search(query, k): k entries, nearest first, as (ordinal,
\* distance); with fewer than k vectors the rest is padded with ordinal -1
IndexSearch(index, qv, k) ==
    LET m == Min(k, Len(index))
    IN  { h \o [i \in 1..(k - m) |-> [idx |-> -1, distance |-> FarDistance]] :
             h \in NearestFirst(index, qv, {}, m) }

\* the rows of
\*   SELECT ... FROM document_chunks c JOIN documents d ON c.doc_id = d.id
\*   WHERE c.chunk_index = idx
JoinedRows(idx) ==
    { [chunk_text |-> document_chunks[c].chunk_text,
       doc_id     |-> document_chunks[c].doc_id,
       title      |-> documents[d].title,
       department |-> documents[d].department,
       doc_type   |-> documents[d].doc_type] :
         << c, d >> \in { cd \in (1..Len(document_chunks)) \X (1..Len(documents)) :
                           /\ document_chunks[cd[1]].doc_id = documents[cd[2]].id
                           /\ document_chunks[cd[1]].chunk_index = idx } }

\* float(1 / (1 + distance)), kept as the fraction num/den
RelevanceScore(distance) == [num |-> 1, den |-> 1 + distance]

\* the dict query_documents appends for a fetched row that passes the filters
ResultOf(row, distance) ==
    [document_id     |-> row.doc_id,
     title           |-> row.title,
     department      |-> row.department,
     doc_type        |-> row.doc_type,
     chunk           |-> row.chunk_text,
     relevance_score |-> RelevanceScore(distance)]

\* a loop that appends every fetched row, whatever the filters
PassesFiltersNone(row, department, doc_type) == TRUE

\* `if department and dept != department: continue`, the same for doc_type
PassesFilters(row, department, doc_type) ==
    /\ ~(Truthy(department) /\ row.department # department)
    /\ ~(Truthy(doc_type) /\ row.doc_type # doc_type)

\* the result lists the loop over hits[from..] can build: for each hit
\* cursor.fetchone() gives one of the joined rows (the query has no ORDER BY)
\* or None; a row that passes the filters is appended, anything else skipped
RECURSIVE Hydrate(_, _, _, _)
Hydrate(found, from, department, doc_type) ==
    IF from > Len(found) THEN { << >> }
    ELSE LET rows  == JoinedRows(found[from].idx)
             heads == IF rows = {} THEN { << >> }
                      ELSE { IF PassesFilters(row, department, doc_type)
                             THEN << ResultOf(row, found[from].distance) >>
                             ELSE << >> : row \in rows }
         IN  { hd \o tl : hd \in heads,
                          tl \in Hydrate(found, from + 1, department, doc_type) }

\* query_documents: it has no await of its own, so it runs without suspending
QueryDocuments(text, top_k, department, doc_type) ==
    /\ query = NoQuery
    /\ embedder' = "MiniLM"
    /\ vector_index' = LoadedIndex
    /\ query' = [text |-> text, top_k |-> top_k, department |-> department,
                 doc_type |-> doc_type]
    /\ \E found \in IndexSearch(LoadedIndex, Embed(text), top_k) :
           /\ hits' = found
           /\ results' \in Hydrate(found, 1, department, doc_type)
    /\ stats' = NoStats
    /\ UNCHANGED << documents, document_chunks, index_file, now, n_ingest,
                    tasks, last, answer_vars, tool_vars, ext_vars >>

\* the caller of query_documents has taken the results
QueryReturn ==
    /\ query # NoQuery
    /\ ForgetQuery
    /\ UNCHANGED << documents, document_chunks, embedder, vector_index,
                    index_file, now, n_ingest, tasks, last, answer_vars, tool_vars, ext_vars >>

(***************************************************************************)
(* Statistics: RAGSystem.get_document_stats.                               *)
(***************************************************************************)
\* SELECT COUNT(*) FROM documents [WHERE indexed = 1]
CountDocuments(indexed_only) ==
    Cardinality({d \in 1..Len(documents) :
                    indexed_only => documents[d].indexed})

\* dict(cursor.fetchall()) of SELECT column, COUNT(*) ... GROUP BY column
CountBy(column) ==
    [v \in {documents[d][column] : d \in 1..Len(documents)} |->
        Cardinality({d \in 1..Len(documents) : documents[d][column] = v})]

\* os.path.getsize of the file of a flat index: faiss writes a header of 45
\* bytes and then the components of the vectors as 4-byte floats
IndexFileSize(file) == 45 + 4 * EmbedDim * Len(file.vectors)

\* get_document_stats: it has no await of its own and runs without suspending;
\* it reads the two tables and the size of the index file and writes nothing
GetDocumentStats ==
    /\ stats = NoStats
    /\ stats' = [total_documents   |-> CountDocuments(FALSE),
                 indexed_documents |-> CountDocuments(TRUE),
                 total_chunks      |-> Len(document_chunks),
                 document_types    |-> CountBy("doc_type"),
                 departments       |-> CountBy("department"),
                 index_size        |-> IF index_file.exists
                                       THEN IndexFileSize(index_file) ELSE 0]
    /\ query' = NoQuery
    /\ hits' = << >>
    /\ results' = << >>
    /\ UNCHANGED << documents, document_chunks, embedder, vector_index,
                    index_file, now, n_ingest, tasks, last, answer_vars,
                    tool_vars, ext_vars >>

\* the caller of get_document_stats has taken the statistics
StatsReturn ==
    /\ stats # NoStats
    /\ ForgetQuery
    /\ UNCHANGED << documents, document_chunks, embedder, vector_index,
                    index_file, now, n_ingest, tasks, last, answer_vars,
                    tool_vars, ext_vars >>

\* the system clock advances to its next reading
Tick ==
    /\ now < MaxClock
    /\ now' = now + 1
    /\ ForgetQuery
    /\ UNCHANGED << documents, document_chunks, embedder, vector_index,
                    index_file, n_ingest, tasks, last, answer_vars, tool_vars, ext_vars >>

\* the process ends and a new one constructs its RAGSystem: the database and
\* the index file stay, the embedder and the index in memory are None again
Restart ==
    /\ embedder # "None"
    /\ embedder' = "None"
    /\ vector_index' = << >>
    /\ tasks' = << >>
    /\ last' = NoCall
    /\ ForgetQuery
    /\ UNCHANGED << documents, document_chunks, index_file, now, n_ingest,
                    answer_vars, tool_vars, ext_vars >>

Next ==
    \/ \E call \in Calls, fault \in Faults : ProcessDocument(call, fault)
    \/ \E t \in 1..MaxIngest, fault \in Faults : ResumeDocument(t, fault)
    \/ \E text \in Queries, top_k \in 1..MaxTopK,
          department \in DepartmentFilters, doc_type \in DocTypeFilters :
           QueryDocuments(text, top_k, department, doc_type)
    \/ QueryReturn
    \/ GetDocumentStats
    \/ StatsReturn
    \/ Tick
    \/ Restart

Spec == Init /\ [][Next]_vars

(***************************************************************************)
(* Answer synthesis: RAGSystem.answer_question, RAGSystem._fallback_answer *)
(* and OllamaIntegration.generate_response.  A text built by an f-string   *)
(* is the sequence of its parts: a literal or an interpolated title,       *)
(* department or question is one element, a chunk contributes its          *)
(* characters one by one.                                                  *)
(***************************************************************************)
\* a text of n characters: the letters a, b, c in turn, a blank every fifth
Filler(n) == [i \in 1..n |-> IF i % 5 = 0 THEN " " ELSE Letters[(i % 3) + 1]]

\* the retrieved results the calls are made with, as query_documents shapes them
ResultPool ==
    { [document_id |-> DocId(PolicyTxt, 0), title |-> "policy",
       department |-> "clerk", doc_type |-> "policy",
       chunk |-> << "a", "b", " ", "c", " ", "a", "b" >>,
       relevance_score |-> RelevanceScore(0)],
      [document_id |-> DocId(BriefPdf, 0), title |-> "brief",
       department |-> "court", doc_type |-> "court_document",
       chunk |-> Filler(SnippetLen + 1),
       relevance_score |-> RelevanceScore(1)],
      [document_id |-> DocId(BriefPdf, 1), title |-> "minutes",
       department |-> "records", doc_type |-> "minutes",
       chunk |-> Filler(SnippetLen),
       relevance_score |-> RelevanceScore(4)] }

\* the lists of at most MaxDocs results
ContextLists == UNION { [1..n -> ResultPool] : n \in 0..MaxDocs }

Questions == { "What is the filing fee?" }

\* the texts the backend completes a prompt with
Completions == { << "The filing fee is set by the clerk." >> }

\* str(i) for the numbers enumerate() counts
IntStr(i) == << "1", "2", "3", "4", "5", "6", "7", "8", "9" >>[i]

NoDocumentsMessage ==
    "I couldn't find any relevant documents to answer your question."
TimeoutMessage == "I apologize, but the request timed out. Please try again."
SystemPrompt ==
    "You are BUTLER, an AI assistant for Texas County operations. Answer based on the provided documents."

\* _fallback_answer without its `if not context_docs` test
FallbackAnswerNoEmptyTest(question, context_docs) ==
    << "Based on the documents in our system:\n\n",
       "\nThese documents may contain the information you're looking for regarding: ",
       question >>

\* _fallback_answer looping over context_docs instead of context_docs[:3]
FallbackAnswerAllDocs(question, context_docs) ==
    IF context_docs = << >> THEN << NoDocumentsMessage >>
    ELSE << "Based on the documents in our system:\n\n" >>
         \o FlatRange([i \in 1..Len(context_docs) |->
                << IntStr(i), ". From '", context_docs[i].title, "' (",
                   context_docs[i].department, "):\n", "   " >>
                \o PySlice(context_docs[i].chunk, 0, SnippetLen)
                \o << "...\n\n" >>], 1, Len(context_docs))
         \o << "\nThese documents may contain the information you're looking for regarding: ",
               question >>

\* RAGSystem._fallback_answer
FallbackAnswer(question, context_docs) ==
    IF context_docs = << >> THEN << NoDocumentsMessage >>
    ELSE LET top == PySlice(context_docs, 0, TopDocs)
         IN  << "Based on the documents in our system:\n\n" >>
             \o FlatRange([i \in 1..Len(top) |->
                    << IntStr(i), ". From '", top[i].title, "' (",
                       top[i].department, "):\n", "   " >>
                    \o PySlice(top[i].chunk, 0, SnippetLen)
                    \o << "...\n\n" >>], 1, Len(top))
             \o << "\nThese documents may contain the information you're looking for regarding: ",
                   question >>

\* the join over context_docs instead of context_docs[:3]
BuildContextAllDocs(context_docs) ==
    FlatRange([i \in 1..Len(context_docs) |->
        (IF i = 1 THEN << >> ELSE << "\n\n" >>)
        \o << "Document: ", context_docs[i].title, "\n" >>
        \o context_docs[i].chunk],
        1, Len(context_docs))

\* "\n\n".join(f"Document: {doc['title']}\n{doc['chunk']}" for doc in context_docs[:3])
BuildContext(context_docs) ==
    LET top == PySlice(context_docs, 0, TopDocs)
    IN  FlatRange([i \in 1..Len(top) |->
            (IF i = 1 THEN << >> ELSE << "\n\n" >>)
            \o << "Document: ", top[i].title, "\n" >> \o top[i].chunk],
            1, Len(top))

\* the prompt answer_question passes to generate_response
AnswerPrompt(question, context_docs) ==
    << "Based on the following Texas County documents, answer the question.\n\nContext Documents:\n" >>
    \o BuildContext(context_docs)
    \o << "\n\nQuestion: ", question,
          "\n\nProvide a detailed answer based on the documents. If the documents don't contain enough information, say so." >>

\* OllamaIntegration._build_prompt(prompt, system_prompt) without context
BuildPrompt(prompt, system_prompt) ==
    (IF system_prompt # "" THEN << "System: ", system_prompt, "\n\n" >> ELSE << >>)
    \o << "User: " >> \o prompt \o << "\nAssistant:" >>

\* what the backend does with the POST to /api/generate: it completes the
\* prompt, answers with a JSON body without a 'response' key, does not answer
\* within the timeout, or cannot be connected to
PostOutcomes == {"completion", "error_json", "timeout", "refused"}

\* how generate_response ends after the POST: every branch, the two except
\* branches included, returns an OllamaResponse and none raises
\*   completion  content = result.get('response', ''), the completion
\*   error_json  content = result.get('response', ''), the default ''
\*   timeout     except asyncio.TimeoutError: the apology as content
\*   refused     except Exception: the error message as content
ResponseAfter(outcome, completion) ==
    [outcome |-> outcome,
     raised  |-> "none",
     type    |-> "OllamaResponse",
     content |-> CASE outcome = "completion" -> completion
                   [] outcome = "error_json" -> << >>
                   [] outcome = "timeout"    -> << TimeoutMessage >>
                   [] OTHER -> << "Error generating response: ",
                                  "Cannot connect to host localhost:11434" >>,
     model   |-> "llama3.2:latest"]

\* the exception a subscript doc['title'], doc['department'] or doc['chunk']
\* raises on the first results, "none" when each of them has the keys read
MissingKey(context_docs, keys) ==
    IF \E i \in 1..Min(TopDocs, Len(context_docs)) :
           ~(keys \subseteq DOMAIN context_docs[i])
    THEN "KeyError" ELSE "none"

\* `use_ollama and self.butler and hasattr(self.butler, 'ai_engine')`
UsesBackend(use_ollama) == use_ollama /\ butler = "ai_engine"

\* answer_question up to its first suspension: without the backend it returns
\* the fallback answer; with it, it calls generate_response, which first awaits
\* initialize() when there is no session, and then posts the request
AnswerQuestion(question, context_docs, use_ollama) ==
    /\ ask.pc = "idle"
    /\ n_ask < MaxAsk
    /\ n_ask' = n_ask + 1
    /\ IF MissingKey(context_docs, {"title", "chunk"}) # "none"
       THEN /\ ask' = [NoAsk EXCEPT !.pc = "done",
                                    !.question = question,
                                    !.context_docs = context_docs,
                                    !.use_ollama = use_ollama,
                                    !.raised = "KeyError",
                                    !.posts_before = n_post]
            /\ UNCHANGED << request, n_post >>
       ELSE IF UsesBackend(use_ollama)
       THEN /\ ask' = [NoAsk EXCEPT !.pc = IF session = "None" THEN "initialize"
                                           ELSE "post",
                                    !.question = question,
                                    !.context_docs = context_docs,
                                    !.use_ollama = use_ollama,
                                    !.posts_before = n_post]
            /\ request' = BuildPrompt(AnswerPrompt(question, context_docs),
                                      SystemPrompt)
            /\ n_post' = IF session = "None" THEN n_post ELSE n_post + 1
       ELSE /\ ask' = [NoAsk EXCEPT !.pc = "done",
                                    !.question = question,
                                    !.context_docs = context_docs,
                                    !.use_ollama = use_ollama,
                                    !.via = "fallback",
                                    !.answer = FallbackAnswer(question, context_docs),
                                    !.raised = MissingKey(context_docs,
                                                   {"title", "department", "chunk"}),
                                    !.posts_before = n_post]
            /\ UNCHANGED << request, n_post >>
    /\ UNCHANGED << butler, session, reply, rag_vars, tool_vars, ext_vars >>

\* OllamaIntegration.initialize: the session is created, then the version
\* request succeeds or raises; the exception is caught and the session stays
Initialize ==
    /\ ask.pc = "initialize"
    /\ session' = "open"
    /\ ask' = [ask EXCEPT !.pc = "post"]
    /\ n_post' = n_post + 1
    /\ UNCHANGED << butler, request, reply, n_ask, rag_vars, tool_vars, ext_vars >>

\* the POST ends and generate_response ends; answer_question returns
\* response.content, or the fallback answer from its except branch when
\* generate_response raised
GenerateResponse(outcome, completion) ==
    /\ ask.pc = "post"
    /\ reply' = ResponseAfter(outcome, completion)
    /\ ask' = IF reply'.raised = "none"
              THEN [ask EXCEPT !.pc = "done", !.via = "backend",
                               !.answer = reply'.content]
              ELSE [ask EXCEPT !.pc = "done", !.via = "fallback",
                               !.answer = FallbackAnswer(ask.question,
                                                         ask.context_docs),
                               !.raised = MissingKey(ask.context_docs,
                                              {"title", "department", "chunk"})]
    /\ UNCHANGED << butler, session, request, n_ask, n_post, rag_vars, tool_vars, ext_vars >>

\* the caller of answer_question has taken the answer
AnswerReturn ==
    /\ ask.pc = "done"
    /\ ask' = NoAsk
    /\ request' = << >>
    /\ reply' = NoReply
    /\ UNCHANGED << butler, session, n_ask, n_post, rag_vars, tool_vars, ext_vars >>

\* a RAGSystem constructed with no butler core, with an object that has no
\* ai_engine attribute, or with a ButlerCore
InitAnswering ==
    /\ InitRag
    /\ InitAnswer
    /\ InitTools
    /\ InitExt
    /\ butler \in {"None", "no_ai_engine", "ai_engine"}

NextAnswering ==
    \/ \E question \in Questions, context_docs \in ContextLists,
          use_ollama \in BOOLEAN :
           AnswerQuestion(question, context_docs, use_ollama)
    \/ Initialize
    \/ \E outcome \in PostOutcomes, completion \in Completions :
           GenerateResponse(outcome, completion)
    \/ AnswerReturn

SpecAnswering == InitAnswering /\ [][NextAnswering]_vars

(***************************************************************************)
(* The chunker on its own: RAGSystem._chunk_text called on a text under a  *)
(* configuration of chunk_size and chunk_overlap, the two attributes it    *)
(* reads.  The texts are all texts of at most MaxTextLen characters over   *)
(* two letters and two kinds of whitespace, and, under the configuration   *)
(* the constructor sets, a text of 1200 tokens and one of 401.             *)
(***************************************************************************)
ChunkAlphabet == { "a", "b", " ", "\n" }

ShortTexts == UNION { [1..n -> ChunkAlphabet] : n \in 0..MaxTextLen }

\* n tokens "a", "b", "c" in turn, a blank or a line break between them
TokenText(n) ==
    [i \in 1..(2 * n - 1) |->
        IF i % 2 = 0 THEN (IF i % 4 = 0 THEN "\n" ELSE " ")
        ELSE Letters[(((i + 1) \div 2) % 3) + 1]]

ChunkInputs ==
    { [text |-> text, size |-> size, overlap |-> overlap] :
         text \in ShortTexts, size \in 1..MaxChunkSize,
         overlap \in 0..MaxChunkSize }
    \cup { [text |-> TokenText(n), size |-> chunk_size,
            overlap |-> chunk_overlap] : n \in {401, 1200} }

\* one call of self._chunk_text(text)
ChunkTextCall ==
    /\ Len(chunking.returned) < MaxChunkCalls
    /\ chunking' = [chunking EXCEPT !.returned =
                        Append(@, ChunkText(chunking.text, chunking.size,
                                            chunking.overlap))]
    /\ UNCHANGED << rag_vars, answer_vars, generation, ext_vars >>

InitChunking ==
    /\ InitRag
    /\ InitAnswer
    /\ butler = "None"
    /\ generation = NoGeneration
    /\ InitExt
    /\ \E input \in ChunkInputs :
           chunking = [text |-> input.text, size |-> input.size,
                       overlap |-> input.overlap, returned |-> << >>]

NextChunking == ChunkTextCall

SpecChunking == InitChunking /\ [][NextChunking]_vars

(***************************************************************************)
(* The document generator: RAGSystem.generate_document over the templates  *)
(* RAGSystem._load_templates defines.  Template texts, keys and values are *)
(* texts character by character, so that str.replace and re.findall are    *)
(* computed as Python computes them.                                       *)
(***************************************************************************)
\* the text of self.templates["court_summons"]["template"], character by character
CourtSummonsTemplate ==
    <<
       "\n", "C", "O", "U", "R", "T", " ", "S", "U", "M", "M", "O", "N", "S",
       "\n", "\n", "T", "H", "E", " ", "S", "T", "A", "T", "E", " ", "O",
       "F", " ", "T", "E", "X", "A", "S", "\n", "C", "O", "U", "N", "T", "Y",
       " ", "O", "F", " ", "{", "c", "o", "u", "n", "t", "y", "}", "\n",
       "\n", "T", "O", ":", " ", "{", "d", "e", "f", "e", "n", "d", "a", "n",
       "t", "_", "n", "a", "m", "e", "}", "\n", "A", "D", "D", "R", "E", "S",
       "S", ":", " ", "{", "d", "e", "f", "e", "n", "d", "a", "n", "t", "_",
       "a", "d", "d", "r", "e", "s", "s", "}", "\n", "\n", "Y", "O", "U",
       " ", "A", "R", "E", " ", "H", "E", "R", "E", "B", "Y", " ", "C", "O",
       "M", "M", "A", "N", "D", "E", "D", " ", "t", "o", " ", "a", "p", "p",
       "e", "a", "r", " ", "b", "e", "f", "o", "r", "e", " ", "t", "h", "e",
       " ", "{", "c", "o", "u", "r", "t", "_", "n", "a", "m", "e", "}", " ",
       "C", "o", "u", "r", "t", " ", "o", "f", " ", "{", "c", "o", "u", "n",
       "t", "y", "}", " ", "C", "o", "u", "n", "t", "y", ",", " ", "T", "e",
       "x", "a", "s", ",", "\n", "a", "t", " ", "{", "c", "o", "u", "r", "t",
       "_", "a", "d", "d", "r", "e", "s", "s", "}", ",", " ", "o", "n", " ",
       "{", "a", "p", "p", "e", "a", "r", "a", "n", "c", "e", "_", "d", "a",
       "t", "e", "}", " ", "a", "t", " ", "{", "a", "p", "p", "e", "a", "r",
       "a", "n", "c", "e", "_", "t", "i", "m", "e", "}", ".", "\n", "\n",
       "C", "A", "S", "E", " ", "N", "U", "M", "B", "E", "R", ":", " ", "{",
       "c", "a", "s", "e", "_", "n", "u", "m", "b", "e", "r", "}", "\n", "P",
       "L", "A", "I", "N", "T", "I", "F", "F", ":", " ", "{", "p", "l", "a",
       "i", "n", "t", "i", "f", "f", "_", "n", "a", "m", "e", "}", "\n", "D",
       "E", "F", "E", "N", "D", "A", "N", "T", ":", " ", "{", "d", "e", "f",
       "e", "n", "d", "a", "n", "t", "_", "n", "a", "m", "e", "}", "\n",
       "\n", "N", "A", "T", "U", "R", "E", " ", "O", "F", " ", "S", "U", "I",
       "T", ":", " ", "{", "s", "u", "i", "t", "_", "d", "e", "s", "c", "r",
       "i", "p", "t", "i", "o", "n", "}", "\n", "\n", "Y", "o", "u", " ",
       "a", "r", "e", " ", "f", "u", "r", "t", "h", "e", "r", " ", "n", "o",
       "t", "i", "f", "i", "e", "d", " ", "t", "h", "a", "t", " ", "i", "f",
       " ", "y", "o", "u", " ", "f", "a", "i", "l", " ", "t", "o", " ", "a",
       "p", "p", "e", "a", "r", " ", "a", "s", " ", "c", "o", "m", "m", "a",
       "n", "d", "e", "d", ",", " ", "a", " ", "d", "e", "f", "a", "u", "l",
       "t", " ", "j", "u", "d", "g", "m", "e", "n", "t", " ", "m", "a", "y",
       " ", "b", "e", "\n", "e", "n", "t", "e", "r", "e", "d", " ", "a", "g",
       "a", "i", "n", "s", "t", " ", "y", "o", "u", " ", "g", "r", "a", "n",
       "t", "i", "n", "g", " ", "t", "h", "e", " ", "r", "e", "l", "i", "e",
       "f", " ", "d", "e", "m", "a", "n", "d", "e", "d", " ", "i", "n", " ",
       "t", "h", "e", " ", "p", "e", "t", "i", "t", "i", "o", "n", ".", "\n",
       "\n", "I", "S", "S", "U", "E", "D", " ", "t", "h", "i", "s", " ", "{",
       "i", "s", "s", "u", "e", "_", "d", "a", "t", "e", "}", ".", "\n",
       "\n", "_", "_", "_", "_", "_", "_", "_", "_", "_", "_", "_", "_", "_",
       "_", "_", "_", "_", "_", "_", "_", "_", "\n", "C", "L", "E", "R", "K",
       " ", "O", "F", " ", "C", "O", "U", "R", "T", "\n", "{", "c", "o", "u",
       "n", "t", "y", "}", " ", "C", "o", "u", "n", "t", "y", ",", " ", "T",
       "e", "x", "a", "s", "\n", "\n", "B", "y", ":", " ", "_", "_", "_",
       "_", "_", "_", "_", "_", "_", "_", "_", "_", "_", "_", "_", "_", "_",
       "_", "_", "_", "_", "\n", " ", " ", " ", " ", "D", "e", "p", "u", "t",
       "y", " ", "C", "l", "e", "r", "k", "\n"
    >>

\* the text of self.templates["public_notice"]["template"], character by character
PublicNoticeTemplate ==
    <<
       "\n", "P", "U", "B", "L", "I", "C", " ", "N", "O", "T", "I", "C", "E",
       "\n", "\n", "{", "c", "o", "u", "n", "t", "y", "}", " ", "C", "O",
       "U", "N", "T", "Y", ",", " ", "T", "E", "X", "A", "S", "\n", "\n",
       "N", "O", "T", "I", "C", "E", " ", "O", "F", " ", "{", "n", "o", "t",
       "i", "c", "e", "_", "t", "y", "p", "e", "}", "\n", "\n", "D", "a",
       "t", "e", ":", " ", "{", "d", "a", "t", "e", "}", "\n", "T", "i", "m",
       "e", ":", " ", "{", "t", "i", "m", "e", "}", "\n", "L", "o", "c", "a",
       "t", "i", "o", "n", ":", " ", "{", "l", "o", "c", "a", "t", "i", "o",
       "n", "}", "\n", "\n", "T", "h", "e", " ", "{", "d", "e", "p", "a",
       "r", "t", "m", "e", "n", "t", "}", " ", "o", "f", " ", "{", "c", "o",
       "u", "n", "t", "y", "}", " ", "C", "o", "u", "n", "t", "y", " ", "h",
       "e", "r", "e", "b", "y", " ", "p", "r", "o", "v", "i", "d", "e", "s",
       " ", "n", "o", "t", "i", "c", "e", " ", "o", "f", " ", "{", "n", "o",
       "t", "i", "c", "e", "_", "s", "u", "b", "j", "e", "c", "t", "}", ".",
       "\n", "\n", "D", "E", "T", "A", "I", "L", "S", ":", "\n", "{", "n",
       "o", "t", "i", "c", "e", "_", "d", "e", "t", "a", "i", "l", "s", "}",
       "\n", "\n", "P", "U", "B", "L", "I", "C", " ", "P", "A", "R", "T",
       "I", "C", "I", "P", "A", "T", "I", "O", "N", ":", "\n", "{", "p", "a",
       "r", "t", "i", "c", "i", "p", "a", "t", "i", "o", "n", "_", "i", "n",
       "f", "o", "}", "\n", "\n", "F", "o", "r", " ", "m", "o", "r", "e",
       " ", "i", "n", "f", "o", "r", "m", "a", "t", "i", "o", "n", ",", " ",
       "c", "o", "n", "t", "a", "c", "t", ":", "\n", "{", "c", "o", "n", "t",
       "a", "c", "t", "_", "n", "a", "m", "e", "}", "\n", "{", "c", "o", "n",
       "t", "a", "c", "t", "_", "t", "i", "t", "l", "e", "}", "\n", "{", "c",
       "o", "n", "t", "a", "c", "t", "_", "p", "h", "o", "n", "e", "}", "\n",
       "{", "c", "o", "n", "t", "a", "c", "t", "_", "e", "m", "a", "i", "l",
       "}", "\n", "\n", "T", "h", "i", "s", " ", "n", "o", "t", "i", "c",
       "e", " ", "i", "s", " ", "p", "o", "s", "t", "e", "d", " ", "i", "n",
       " ", "a", "c", "c", "o", "r", "d", "a", "n", "c", "e", " ", "w", "i",
       "t", "h", " ", "T", "e", "x", "a", "s", " ", "L", "o", "c", "a", "l",
       " ", "G", "o", "v", "e", "r", "n", "m", "e", "n", "t", " ", "C", "o",
       "d", "e", " ", "C", "h", "a", "p", "t", "e", "r", " ", "{", "c", "o",
       "d", "e", "_", "r", "e", "f", "e", "r", "e", "n", "c", "e", "}", ".",
       "\n", "\n", "P", "o", "s", "t", "e", "d", ":", " ", "{", "p", "o",
       "s", "t", "_", "d", "a", "t", "e", "}", "\n"
    >>

\* the text of self.templates["foia_response"]["template"], character by character
FoiaResponseTemplate ==
    <<
       "\n", "{", "d", "e", "p", "a", "r", "t", "m", "e", "n", "t", "}",
       "\n", "{", "c", "o", "u", "n", "t", "y", "}", " ", "C", "o", "u", "n",
       "t", "y", ",", " ", "T", "e", "x", "a", "s", "\n", "{", "d", "e", "p",
       "a", "r", "t", "m", "e", "n", "t", "_", "a", "d", "d", "r", "e", "s",
       "s", "}", "\n", "\n", "{", "d", "a", "t", "e", "}", "\n", "\n", "{",
       "r", "e", "q", "u", "e", "s", "t", "o", "r", "_", "n", "a", "m", "e",
       "}", "\n", "{", "r", "e", "q", "u", "e", "s", "t", "o", "r", "_", "a",
       "d", "d", "r", "e", "s", "s", "}", "\n", "\n", "R", "E", ":", " ",
       "P", "u", "b", "l", "i", "c", " ", "I", "n", "f", "o", "r", "m", "a",
       "t", "i", "o", "n", " ", "R", "e", "q", "u", "e", "s", "t", " ", "#",
       "{", "r", "e", "q", "u", "e", "s", "t", "_", "n", "u", "m", "b", "e",
       "r", "}", "\n", "\n", "D", "e", "a", "r", " ", "{", "r", "e", "q",
       "u", "e", "s", "t", "o", "r", "_", "n", "a", "m", "e", "}", ":", "\n",
       "\n", "T", "h", "i", "s", " ", "l", "e", "t", "t", "e", "r", " ", "i",
       "s", " ", "i", "n", " ", "r", "e", "s", "p", "o", "n", "s", "e", " ",
       "t", "o", " ", "y", "o", "u", "r", " ", "r", "e", "q", "u", "e", "s",
       "t", " ", "f", "o", "r", " ", "p", "u", "b", "l", "i", "c", " ", "i",
       "n", "f", "o", "r", "m", "a", "t", "i", "o", "n", " ", "r", "e", "c",
       "e", "i", "v", "e", "d", " ", "o", "n", " ", "{", "r", "e", "q", "u",
       "e", "s", "t", "_", "d", "a", "t", "e", "}", ".", "\n", "\n", "R",
       "E", "Q", "U", "E", "S", "T", " ", "S", "U", "M", "M", "A", "R", "Y",
       ":", "\n", "{", "r", "e", "q", "u", "e", "s", "t", "_", "s", "u", "m",
       "m", "a", "r", "y", "}", "\n", "\n", "R", "E", "S", "P", "O", "N",
       "S", "E", ":", "\n", "{", "r", "e", "s", "p", "o", "n", "s", "e", "_",
       "t", "y", "p", "e", "}", "\n", "\n", "{", "r", "e", "s", "p", "o",
       "n", "s", "e", "_", "d", "e", "t", "a", "i", "l", "s", "}", "\n",
       "\n", "F", "E", "E", "S", ":", "\n", "{", "f", "e", "e", "_", "i",
       "n", "f", "o", "r", "m", "a", "t", "i", "o", "n", "}", "\n", "\n",
       "A", "P", "P", "E", "A", "L", " ", "R", "I", "G", "H", "T", "S", ":",
       "\n", "Y", "o", "u", " ", "m", "a", "y", " ", "a", "p", "p", "e", "a",
       "l", " ", "t", "h", "i", "s", " ", "d", "e", "c", "i", "s", "i", "o",
       "n", " ", "t", "o", " ", "t", "h", "e", " ", "O", "f", "f", "i", "c",
       "e", " ", "o", "f", " ", "t", "h", "e", " ", "A", "t", "t", "o", "r",
       "n", "e", "y", " ", "G", "e", "n", "e", "r", "a", "l", " ", "o", "f",
       " ", "T", "e", "x", "a", "s", " ", "w", "i", "t", "h", "i", "n", " ",
       "{", "a", "p", "p", "e", "a", "l", "_", "d", "a", "y", "s", "}", " ",
       "d", "a", "y", "s", ".", "\n", "\n", "S", "i", "n", "c", "e", "r",
       "e", "l", "y", ",", "\n", "\n", "{", "r", "e", "s", "p", "o", "n",
       "d", "e", "r", "_", "n", "a", "m", "e", "}", "\n", "{", "r", "e", "s",
       "p", "o", "n", "d", "e", "r", "_", "t", "i", "t", "l", "e", "}", "\n",
       "P", "u", "b", "l", "i", "c", " ", "I", "n", "f", "o", "r", "m", "a",
       "t", "i", "o", "n", " ", "C", "o", "o", "r", "d", "i", "n", "a", "t",
       "o", "r", "\n"
    >>

\* self.templates as _load_templates builds it
Templates ==
    [name \in {"court_summons", "public_notice", "foia_response"} |->
        CASE name = "court_summons" ->
                 [title |-> "Court Summons", template |-> CourtSummonsTemplate]
          [] name = "public_notice" ->
                 [title |-> "Public Notice", template |-> PublicNoticeTemplate]
          [] OTHER ->
                 [title |-> "FOIA Response Letter",
                  template |-> FoiaResponseTemplate]]

\* the characters the regular expression class \w matches, within ASCII
WordChars ==
    {
      "a", "b", "c", "d", "e", "f", "g", "h", "i", "j", "k", "l", "m", "n",
      "o", "p", "q", "r", "s", "t", "u", "v", "w", "x", "y", "z", "A", "B",
      "C", "D", "E", "F", "G", "H", "I", "J", "K", "L", "M", "N", "O", "P",
      "Q", "R", "S", "T", "U", "V", "W", "X", "Y", "Z", "0", "1", "2", "3",
      "4", "5", "6", "7", "8", "9", "_"
    }

\* text[i..] starts with pat
StartsAt(text, i, pat) ==
    /\ i + Len(pat) - 1 <= Len(text)
    /\ SubSeq(text, i, i + Len(pat) - 1) = pat

\* str(i) for a natural number i
RECURSIVE Digits(_)
Digits(i) ==
    LET digit == << "0", "1", "2", "3", "4", "5", "6", "7", "8", "9" >>
    IN  IF i < 10 THEN << digit[i + 1] >>
        ELSE Digits(i \div 10) \o << digit[(i % 10) + 1] >>

\* str(value): a str is itself, an int is its decimal digits
PyStr(value) == IF value.type = "int" THEN Digits(value.n) ELSE value.text

\* f"{{{key}}}": the key between braces
Placeholder(key) == << "{" >> \o key \o << "}" >>

\* the positions, from `from` on, where text.replace(old, ...) finds old:
\* the leftmost occurrence, then the leftmost one after its end, and so on
RECURSIVE Occurrences(_, _, _)
Occurrences(text, old, from) ==
    LET cand == {i \in from..(Len(text) - Len(old) + 1) : StartsAt(text, i, old)}
    IN  IF cand = {} THEN {}
        ELSE LET first == CHOOSE i \in cand : \A k \in cand : i <= k
             IN  {first} \cup Occurrences(text, old, first + Len(old))

\* text.replace(old, new), old not empty: every occurrence found becomes new
Replace(text, old, new) ==
    LET found == Occurrences(text, old, 1)
    IN  FlatRange([i \in 1..Len(text) |->
                     IF i \in found THEN new
                     ELSE IF \E j \in found : j < i /\ i < j + Len(old)
                     THEN << >>
                     ELSE << text[i] >>],
                  1, Len(text))

\* the position after the run of word characters that starts at i
WordRunEnd(text, i) ==
    LET stops == {j \in i..Len(text) : text[j] \notin WordChars}
    IN  IF stops = {} THEN Len(text) + 1
        ELSE CHOOSE j \in stops : \A k \in stops : j <= k

\* the pattern \{(\w+)\} matches at i: a brace, one word character or more,
\* a closing brace
PlaceholderAt(text, i) ==
    /\ text[i] = "{"
    /\ WordRunEnd(text, i + 1) > i + 1
    /\ WordRunEnd(text, i + 1) <= Len(text)
    /\ text[WordRunEnd(text, i + 1)] = "}"

\* the group (\w+) of the match at i
PlaceholderName(text, i) == SubSeq(text, i + 1, WordRunEnd(text, i + 1) - 1)

\* re.findall(r'\{(\w+)\}', text): the names, in order of occurrence (a match
\* holds no second opening brace, so no two matches overlap)
FindAll(text) ==
    FlatRange([i \in 1..Len(text) |->
                 IF PlaceholderAt(text, i) THEN << PlaceholderName(text, i) >>
                 ELSE << >>],
              1, Len(text))

\* the loop `for key, value in variables.items()`: the mapping is applied
\* entry by entry, in the order of its entries, each to the text the entries
\* before it left
RECURSIVE FillIn(_, _)
FillIn(template, variables) ==
    IF variables = << >> THEN template
    ELSE FillIn(Replace(template, Placeholder(variables[1].key),
                        PyStr(variables[1].value)),
                Tail(variables))

\* the keys and the values of the mappings passed
KeyPool == { << "c", "o", "u", "n", "t", "y" >>,
             << "d", "a", "t", "e" >>,
             << "a", "p", "p", "e", "a", "l", "_", "d", "a", "y", "s" >>,
             << "c", "a", "s", "e" >> }

ValuePool == { [type |-> "str", text |-> << "T", "r", "a", "v", "i", "s" >>],
               [type |-> "str", text |-> << "{", "d", "a", "t", "e", "}" >>],
               [type |-> "int", n |-> 30] }

\* the mappings of at most MaxVars entries, as dicts keep them: in insertion
\* order, every key once
VariableMappings ==
    UNION { { m \in [1..n -> [key : KeyPool, value : ValuePool]] :
                 \A i, j \in 1..n : i # j => m[i].key # m[j].key } :
            n \in 0..MaxVars }

TemplateNames == DOMAIN Templates \cup { "eviction_notice" }

\* generate_document: it has no await of its own and runs to its end.  An
\* unknown name raises ValueError; otherwise the filled text is returned, and
\* the names still between braces in it go to the log as a warning
GenerateDocument(template_name, variables) ==
    /\ generation.pc = "idle"
    /\ api_call.pc = "idle"    \* the client makes one call at a time
    /\ generation' =
           IF template_name \notin DOMAIN Templates
           THEN [NoGeneration EXCEPT !.pc = "done",
                                     !.template_name = template_name,
                                     !.variables = variables,
                                     !.raised = "ValueError"]
           ELSE LET template == FillIn(Templates[template_name].template,
                                       variables)
                    missing  == FindAll(template)
                IN  [NoGeneration EXCEPT !.pc = "done",
                                         !.template_name = template_name,
                                         !.variables = variables,
                                         !.returned = [type |-> "str",
                                                       text |-> template],
                                         !.logged = missing]
    /\ UNCHANGED << rag_vars, answer_vars, chunking, ext_vars >>

\* the caller of generate_document has taken what it returned
GenerateReturn ==
    /\ generation.pc = "done"
    /\ generation' = NoGeneration
    /\ UNCHANGED << rag_vars, answer_vars, chunking, ext_vars >>

(***************************************************************************)
(* The HTTP interface to document generation: api_server.generate_document *)
(* serves POST /api/generate_document from templates of its own.           *)
(***************************************************************************)

\* the text of templates["court_summons"] of the endpoint, character by character
ApiCourtSummonsTemplate ==
    <<
       "C", "O", "U", "R", "T", " ", "S", "U", "M", "M", "O", "N", "S", "\n",
       "\n", "C", "a", "s", "e", " ", "N", "o", ":", " ", "{", "c", "a", "s",
       "e", "_", "n", "u", "m", "b", "e", "r", "}", "\n", "D", "e", "f", "e",
       "n", "d", "a", "n", "t", ":", " ", "{", "d", "e", "f", "e", "n", "d",
       "a", "n", "t", "}", "\n", "D", "a", "t", "e", ":", " ", "{", "d", "a",
       "t", "e", "}", "\n", "\n", "Y", "o", "u", " ", "a", "r", "e", " ",
       "h", "e", "r", "e", "b", "y", " ", "c", "o", "m", "m", "a", "n", "d",
       "e", "d", " ", "t", "o", " ", "a", "p", "p", "e", "a", "r", " ", "b",
       "e", "f", "o", "r", "e", " ", "t", "h", "e", " ", "C", "o", "u", "r",
       "t", ".", ".", "."
    >>

\* the text of templates["public_notice"] of the endpoint, character by character
ApiPublicNoticeTemplate ==
    <<
       "P", "U", "B", "L", "I", "C", " ", "N", "O", "T", "I", "C", "E", "\n",
       "\n", "{", "t", "i", "t", "l", "e", "}", "\n", "D", "a", "t", "e",
       ":", " ", "{", "d", "a", "t", "e", "}", "\n", "\n", "N", "o", "t",
       "i", "c", "e", " ", "i", "s", " ", "h", "e", "r", "e", "b", "y", " ",
       "g", "i", "v", "e", "n", " ", "t", "h", "a", "t", " ", "{", "d", "e",
       "t", "a", "i", "l", "s", "}", ".", ".", "."
    >>

\* the default of templates.get(template_type, ...), character by character
TemplateNotFound ==
    <<
       "T", "e", "m", "p", "l", "a", "t", "e", " ", "n", "o", "t", " ", "f",
       "o", "u", "n", "d"
    >>

\* the templates dict built inside the handler
ApiTemplates ==
    [court_summons |-> ApiCourtSummonsTemplate,
     public_notice |-> ApiPublicNoticeTemplate]

\* templates.get(template_type, "Template not found")
ApiTemplateGet(template_type) ==
    IF template_type \in DOMAIN ApiTemplates
    THEN ApiTemplates[template_type]
    ELSE TemplateNotFound

\* the bodies a client posts: a JSON object with or without the keys
\* 'template' and 'variables' (an absent 'variables' reads as {}), or a body
\* that is not a JSON object, on which request.json or data.get raises
ApiTemplateNames == TemplateNames
ApiBodies ==
    { [kind |-> "object", has_template |-> TRUE, template |-> t,
       variables |-> v] : t \in ApiTemplateNames, v \in VariableMappings }
    \cup { [kind |-> "object", has_template |-> FALSE, template |-> "",
            variables |-> v] : v \in VariableMappings }
    \cup { [NoBody EXCEPT !.kind = "array"] }

\* data.get('template', 'court_summons')
TemplateTypeOf(body) ==
    IF body.has_template THEN body.template ELSE "court_summons"

\* the handler: it is a synchronous Flask view and runs to its end.  Any
\* exception is answered with status 500 and success False; every other
\* request with status 200, success True and the filled text
ApiGenerateDocument(body) ==
    /\ api_call.pc = "idle"
    /\ generation.pc = "idle"  \* the client makes one call at a time
    /\ api_call' =
           IF body.kind # "object"
           THEN [pc |-> "done", body |-> body, status |-> "500",
                 response |-> [NoResponse EXCEPT !.error = "AttributeError"]]
           ELSE LET template_type == TemplateTypeOf(body)
                    template == FillIn(ApiTemplateGet(template_type),
                                       body.variables)
                IN  [pc |-> "done", body |-> body, status |-> "200",
                     response |-> [success |-> TRUE, document |-> template,
                                   template_type |-> template_type,
                                   error |-> "none"]]
    /\ UNCHANGED << rag_vars, answer_vars, tool_vars, workflow_vars, chat_vars >>

\* the client has read the response
ApiReturn ==
    /\ api_call.pc = "done"
    /\ api_call' = NoApiCall
    /\ UNCHANGED << rag_vars, answer_vars, tool_vars, workflow_vars, chat_vars >>

NextGenerating ==
    \/ \E template_name \in TemplateNames, variables \in VariableMappings :
           GenerateDocument(template_name, variables)
    \/ GenerateReturn
    \/ \E body \in ApiBodies : ApiGenerateDocument(body)
    \/ ApiReturn

SpecGenerating == Init /\ [][NextGenerating]_vars

(***************************************************************************)
(* Properties of the store and the index.                                  *)
(***************************************************************************)
IsPrefix(s, t) == Len(s) <= Len(t) /\ SubSeq(t, 1, Len(s)) = s

\* this step is the end of a process_document call
CallEnds == last'.seq = last.seq + 1

\* the document rows whose title is that of the file
RowsOf(rows, path) == {d \in 1..Len(rows) : rows[d].title = path.stem}

\* the chunk rows of a document
ChunkRowsOf(id) == {c \in 1..Len(document_chunks) : document_chunks[c].doc_id = id}

\* Chunk rows and vectors are inserted by the same step in the same order:
\* the chunk whose vector was the o-th one added is the chunk of row o + 1.
RowsFollowIndex ==
    /\ Len(LoadedIndex) = Len(document_chunks)
    /\ \A c \in 1..Len(document_chunks) :
           LoadedIndex[c] = document_chunks[c].embedding

\* C1: every ordinal o the index search returned is resolved, by the row
\* lookup of query_documents (chunk_index = o), to the document id and chunk
\* text of the chunk whose vector was the o-th one added to the index.
C1_OrdinalResolvesToItsChunk ==
    \A h \in 1..Len(hits) :
        hits[h].idx >= 0 =>
            /\ hits[h].idx < Len(document_chunks)
            /\ JoinedRows(hits[h].idx) # {}
            /\ \A row \in JoinedRows(hits[h].idx) :
                   /\ row.doc_id = document_chunks[hits[h].idx + 1].doc_id
                   /\ row.chunk_text = document_chunks[hits[h].idx + 1].chunk_text

\* C2: in no state a query can run in is a document row stored while chunk
\* rows or vectors of the document are missing, nor are there vectors in the
\* index without their chunk rows.
C2_NoPartialIngestionVisible ==
    /\ \A d \in 1..Len(documents) :
           Cardinality(ChunkRowsOf(documents[d].id)) = Len(documents[d].chunks.json)
    /\ Len(LoadedIndex) = Len(document_chunks)

\* C3: a process_document call on a file that was ingested before leaves
\* exactly one document record for the file and as many chunk rows and index
\* vectors as there were before the call.
C3_ReingestIsIdempotent ==
    [][ (/\ CallEnds
         /\ \E d \in RowsOf(documents, last'.path) : documents[d].indexed)
        => /\ Cardinality(RowsOf(documents', last'.path)) = 1
           /\ Len(document_chunks') = Len(document_chunks)
           /\ Len(vector_index') = Len(LoadedIndex) ]_vars

\* C4: storing a document whose id is already in table documents succeeds and
\* leaves exactly one record with that id.
C4_StoreIsInsertOrReplace ==
    [][ (/\ CallEnds
         /\ last'.stage # "suffix"
         /\ \E d \in 1..Len(documents) : documents[d].id = last'.id)
        => /\ ~(last'.stage = "store" /\ last'.raised # "none")
           /\ Cardinality({d \in 1..Len(documents') :
                              documents'[d].id = last'.id}) = 1 ]_vars

\* C5: when the embedding or the insertion into the index fails, the call
\* leaves no document row, no chunk row and no vector behind, in memory or in
\* the index file, and what was stored before is unchanged.
C5_FailedIngestionLeavesNothing ==
    [][ (CallEnds /\ last'.stage \in {"encode", "add"})
        => /\ documents' = documents
           /\ document_chunks' = document_chunks
           /\ index_file' = index_file
           /\ vector_index' = LoadedIndex ]_vars

\* C6: vectors are only appended. The index file only grows at its end; the
\* index in memory only grows at its end while the process lives, holds the
\* vectors of the file at their ordinals when it is loaded after a restart,
\* and is what the file holds after every step that wrote the file.
C6_IndexOnlyAppends ==
    [][ /\ index_file.exists => index_file'.exists
        /\ IsPrefix(index_file.vectors, index_file'.vectors)
        /\ (embedder # "None" /\ embedder' # "None")
               => IsPrefix(vector_index, vector_index')
        /\ (embedder = "None" /\ embedder' # "None")
               => IsPrefix(index_file.vectors, vector_index')
        /\ (embedder' # "None" /\ index_file'.exists)
               => index_file'.vectors = vector_index' ]_vars

\* a call added vectors behind the ones a restarted process loaded from the file
C6_Witness ==
    /\ last.seq = 1 /\ last.raised = "none"
    /\ Len(vector_index) > Len(Encoded[Source(last.path, last.extract)])
    /\ index_file.vectors = vector_index
(***************************************************************************)
(* Properties of the answer synthesizer.                                   *)
(***************************************************************************)
\* the first results, the ones an answer is built from
TopOf(context_docs) == SubSeq(context_docs, 1, Min(3, Len(context_docs)))

\* C7: when the backend cannot be reached, answers with an error or times
\* out, answer_question (use_ollama true, a butler core with an ai_engine)
\* does not raise and returns the fallback answer with the titles of the
\* first three results; the failure is not what it returns.
C7_BackendFailureGivesFallback ==
    (/\ ask.pc = "done" /\ ask.use_ollama /\ butler = "ai_engine"
     /\ reply.outcome \in {"refused", "error_json", "timeout"})
    => /\ ask.raised = "none"
       /\ ask.answer # reply.content
       /\ ask.answer # << >>
       /\ \A i \in 1..Len(TopOf(ask.context_docs)) :
              \E k \in 1..Len(ask.answer) :
                  ask.answer[k] = ask.context_docs[i].title

\* C8: after a timeout of the backend, what generate_response gives its caller
\* is a failure of a timeout type: it raises, or returns a value that is not
\* of the type a successful completion returns.
C8_TimeoutIsATypedFailure ==
    reply.outcome = "timeout"
    => \/ reply.raised # "none"
       \/ \A c \in Completions : reply.type # ResponseAfter("completion", c).type

\* C9: for an empty list of results the fallback answer is the fixed message
\* that no relevant documents were found, and nothing is raised.
C9_EmptyResultsGiveFixedMessage ==
    (ask.pc = "done" /\ ask.via = "fallback" /\ ask.context_docs = << >>)
    => /\ ask.answer =
              << "I couldn't find any relevant documents to answer your question." >>
       /\ ask.raised = "none"

C9_Witness ==
    /\ ask.pc = "done" /\ ask.via = "fallback" /\ ask.context_docs = << >>
    /\ ask.use_ollama

\* characters of the chunk an entry of the fallback answer shows
ShownLen(doc) == Min(200, Len(doc.chunk))

\* where entry i of the fallback answer starts: after the heading and the
\* entries before it, an entry being seven parts, the snippet and the ellipsis
EntryStart(context_docs, i) ==
    LET upto[j \in 0..Len(context_docs)] ==
            IF j = 0 THEN 0 ELSE upto[j - 1] + 8 + ShownLen(context_docs[j])
    IN  2 + upto[i - 1]

\* C10: for n >= 1 results the fallback answer lists the first min(3, n) of
\* them in rank order, numbered from 1, each with its title, its department
\* and the first 200 characters of its chunk; it holds nothing of a later
\* result, and no request is made to the generative backend.
C10_FallbackListsTopThree ==
    (ask.pc = "done" /\ ask.via = "fallback" /\ ask.context_docs # << >>)
    => LET docs == ask.context_docs
           m    == Min(3, Len(docs))
       IN  /\ ask.raised = "none"
           /\ \A i \in 1..m :
                  LET p == EntryStart(docs, i)
                  IN  /\ SubSeq(ask.answer, p, p + 6) =
                             << IntStr(i), ". From '", docs[i].title, "' (",
                                docs[i].department, "):\n", "   " >>
                      /\ SubSeq(ask.answer, p + 7, p + 6 + ShownLen(docs[i])) =
                             SubSeq(docs[i].chunk, 1, ShownLen(docs[i]))
                      /\ ask.answer[p + 7 + ShownLen(docs[i])] = "...\n\n"
           /\ Len(ask.answer) = EntryStart(docs, m + 1) + 1
           /\ Cardinality({k \in 1..Len(ask.answer) :
                              ask.answer[k] = ". From '"}) = m
           /\ n_post = ask.posts_before

\* a fallback answer for four results, the second with a chunk of more than
\* 200 characters
C10_Witness ==
    /\ ask.pc = "done" /\ ask.via = "fallback"
    /\ Len(ask.context_docs) = 4
    /\ Len(ask.context_docs[2].chunk) > 200
    /\ ask.context_docs[4].title # ask.context_docs[1].title

(***************************************************************************)
(* Properties of retrieval.                                                *)
(***************************************************************************)
\* the chunk whose vector was added at ordinal o, with the columns of its
\* document, as a row of the join
ChunkAtOrdinal(o) ==
    LET c == document_chunks[o + 1]
        d == CHOOSE d \in 1..Len(documents) : documents[d].id = c.doc_id
    IN  [chunk_text |-> c.chunk_text,
         doc_id     |-> c.doc_id,
         title      |-> documents[d].title,
         department |-> documents[d].department,
         doc_type   |-> documents[d].doc_type]

\* the document of the row matches the filters that were given
MatchesFilters(row, department, doc_type) ==
    /\ department # NoneStr => row.department = department
    /\ doc_type # NoneStr => row.doc_type = doc_type

\* the nearest chunks that match the filters, in the order of the search
MatchingNearest(found, department, doc_type) ==
    FlatRange([h \in 1..Len(found) |->
                 IF /\ found[h].idx >= 0
                    /\ MatchesFilters(ChunkAtOrdinal(found[h].idx),
                                      department, doc_type)
                 THEN << [document_id |-> ChunkAtOrdinal(found[h].idx).doc_id,
                          chunk |-> ChunkAtOrdinal(found[h].idx).chunk_text] >>
                 ELSE << >>],
              1, Len(found))

\* C11: with a department or doc_type filter given, the results are exactly
\* those of the top_k nearest chunks whose document matches the filter, in
\* the nearest-first order of the search: as many results as matching chunks
\* among the nearest, each being that chunk of that document.
C11_FilterDropsNotReplaces ==
    (query # NoQuery /\ (query.department # NoneStr \/ query.doc_type # NoneStr))
    => LET want == MatchingNearest(hits, query.department, query.doc_type)
       IN  /\ Len(results) = Len(want)
           /\ \A i \in 1..Len(want) :
                  /\ results[i].document_id = want[i].document_id
                  /\ results[i].chunk = want[i].chunk

\* the distance of a returned chunk to the text of the query
DistanceToQuery(result) == L2(Embed(result.chunk), Embed(query.text))

\* score a is strictly higher than score b, both being fractions
HigherScore(a, b) == a.num * b.den > b.num * a.den

\* C12: the results are in ascending order of the distance of their chunk to
\* the query; of two results the one whose chunk is strictly nearer has the
\* strictly higher relevance score; every score lies in (0, 1].
C12_NearestFirstWithHigherScore ==
    query # NoQuery
    => /\ \A i, j \in 1..Len(results) :
              /\ i < j => DistanceToQuery(results[i]) <= DistanceToQuery(results[j])
              /\ DistanceToQuery(results[i]) < DistanceToQuery(results[j])
                    => HigherScore(results[i].relevance_score,
                                   results[j].relevance_score)
       /\ \A i \in 1..Len(results) :
              /\ 0 < results[i].relevance_score.num
              /\ results[i].relevance_score.num <= results[i].relevance_score.den

\* C13: a query_documents call, whatever its filters and top_k, leaves table
\* documents, table document_chunks and the index file as they were, and the
\* vectors the index holds after it are the ones it held before: those in
\* memory or, when the index was not loaded yet, those of the index file.
C13_QueryIsReadOnly ==
    [][ (query = NoQuery /\ query' # NoQuery)
        => /\ documents' = documents
           /\ document_chunks' = document_chunks
           /\ index_file' = index_file
           /\ vector_index' = IF embedder # "None" THEN vector_index
                              ELSE index_file.vectors ]_vars

\* the first call of a restarted process is a query with a filter, made over
\* stored documents: the index it searched was loaded from the file
C13_Witness ==
    /\ query # NoQuery /\ query.department # NoneStr
    /\ last = NoCall
    /\ documents # << >>
    /\ Len(hits) = 2 /\ hits[2].idx >= 0
    /\ vector_index = index_file.vectors

(***************************************************************************)
(* Properties of the chunker.                                              *)
(***************************************************************************)
\* the whitespace-delimited tokens of a text, in order
Tokens(text) == SplitWords(text)

\* the tokens of the i-th chunk a call returned
ChunkTokens(ret, i) == Tokens(ret.chunks[i])

\* the token offsets chunk i covers when it starts at (i - 1) * step
Span(ret, i, step) ==
    { (i - 1) * step + k : k \in 0..(Len(ChunkTokens(ret, i)) - 1) }

Reassembled(ret, overlap) ==
    FlatRange([i \in 1..Len(ret.chunks) |->
                 IF i = 1 THEN ChunkTokens(ret, i)
                 ELSE SubSeq(ChunkTokens(ret, i), overlap + 1,
                             Len(ChunkTokens(ret, i)))],
              1, Len(ret.chunks))

\* C15: for chunk_size > overlap, the tokens of the chunks that earlier
\* chunks do not cover, concatenated in chunk order, are the tokens of the
\* text, all of them and in their order; every call on the same text returns
\* the same list of chunks.
C15_ChunkingIsLossless ==
    chunking.size > chunking.overlap
    => /\ \A c \in 1..Len(chunking.returned) :
              Reassembled(chunking.returned[c], chunking.overlap)
                  = Tokens(chunking.text)
       /\ \A c, e \in 1..Len(chunking.returned) :
              chunking.returned[c] = chunking.returned[e]

\* a text chunked twice into three windows, the last one holding nothing new
C15_Witness ==
    /\ Len(chunking.returned) = 2
    /\ chunking.size = 2 /\ chunking.overlap = 1
    /\ Len(Tokens(chunking.text)) = 3
    /\ Len(chunking.text) = 5
    /\ Len(chunking.returned[2].chunks) = 3

\* C16: with chunk_size <= overlap every call of _chunk_text, on any text,
\* ends in an error: none returns a chunk list.
C16_NonPositiveStepFailsFast ==
    \A c \in 1..Len(chunking.returned) :
        chunking.size <= chunking.overlap
        => chunking.returned[c].raised # "none"

(***************************************************************************)
(* Properties of extraction.                                               *)
(***************************************************************************)
\* the document rows a call stored under its id
StoredBy(rows, id) == {d \in 1..Len(rows) : rows[d].id = id}

\* C17: when the extraction of a file fails, whatever its format, the
\* exception does not leave process_document at the extraction, and the
\* content extracted for the file, the content of the row the call stores,
\* is the empty string.
C17_ExtractionFailureGivesEmptyText ==
    [][ (CallEnds /\ last'.extract # "none")
        => /\ last'.stage # "read"
           /\ \A d \in StoredBy(documents', last'.id) \ StoredBy(documents, last'.id) :
                  documents'[d].content = << >> ]_vars

\* C18: a call whose extraction failed stores nothing: table documents, table
\* document_chunks, the index file and the vectors of the index are what they
\* were before the call.
C18_ExtractionFailureAbortsIngestion ==
    [][ (CallEnds /\ last'.extract # "none")
        => /\ documents' = documents
           /\ document_chunks' = document_chunks
           /\ index_file' = index_file
           /\ vector_index' = LoadedIndex ]_vars

\* C19: a process_document call on a file whose extension, in lower case, is
\* none of .pdf, .docx, .doc, .txt raises ValueError at the test of the
\* extension, before any extraction and before the embedder is initialized,
\* and leaves table documents, table document_chunks, the index and its file
\* unchanged.
C19_UnsupportedSuffixIsRejected ==
    [][ (/\ CallEnds
         /\ last'.path.suffix \notin {".pdf", ".PDF", ".docx", ".doc", ".txt"})
        => /\ last'.raised = "ValueError"
           /\ last'.stage = "suffix"
           /\ last'.extract = "none"
           /\ documents' = documents
           /\ document_chunks' = document_chunks
           /\ index_file' = index_file
           /\ vector_index' = vector_index
           /\ embedder' = embedder ]_vars

\* a .csv file was rejected by a process that had ingested a document before
C19_Witness ==
    /\ last.seq = 2 /\ last.path.suffix = ".csv" /\ last.stage = "suffix"
    /\ Len(documents) = 1 /\ documents[1].indexed
    /\ Len(vector_index) > 0

(***************************************************************************)
(* Properties of the document generator.                                   *)
(***************************************************************************)
\* the value the mapping gives a key, as a text
ValueOf(variables, key) ==
    PyStr(variables[CHOOSE i \in 1..Len(variables) : variables[i].key = key].value)

HasKey(variables, key) == \E i \in 1..Len(variables) : variables[i].key = key

\* the template with every placeholder whose key is in the mapping replaced
\* by the value of the key, everything else as it is
FilledAtOnce(template, variables) ==
    LET n == Len(template)
        inside(i) == \E j \in 1..(i - 1) :
                         /\ PlaceholderAt(template, j)
                         /\ HasKey(variables, PlaceholderName(template, j))
                         /\ i <= WordRunEnd(template, j + 1)
    IN  FlatRange([i \in 1..n |->
                     IF /\ PlaceholderAt(template, i)
                        /\ HasKey(variables, PlaceholderName(template, i))
                     THEN ValueOf(variables, PlaceholderName(template, i))
                     ELSE IF inside(i) THEN << >>
                     ELSE << template[i] >>],
                  1, n)

\* the names of the placeholders of the template the mapping has no key for
Unresolved(template, variables) ==
    FlatRange([i \in 1..Len(template) |->
                 IF /\ PlaceholderAt(template, i)
                    /\ ~HasKey(variables, PlaceholderName(template, i))
                 THEN << PlaceholderName(template, i) >> ELSE << >>],
              1, Len(template))

\* C20: for a defined template, generate_document returns the template with
\* every {key} placeholder whose key is in the mapping replaced by the string
\* value and every other placeholder left as it is; it does not raise, and
\* what the caller receives holds, with the text, the list of the names of
\* the placeholders left unresolved.
C20_FillReportsUnresolved ==
    (generation.pc = "done" /\ generation.template_name \in DOMAIN Templates)
    => LET template == Templates[generation.template_name].template
       IN  /\ generation.raised = "none"
           /\ generation.returned.text =
                  FilledAtOnce(template, generation.variables)
           /\ "warnings" \in DOMAIN generation.returned
           /\ generation.returned.warnings =
                  Unresolved(template, generation.variables)

(***************************************************************************)
(* Workflow automation: WorkflowAutomation.initiate_workflow and the tasks *)
(* it creates for _process_workflow_step.  The clock `now` is read here in *)
(* whole seconds, the unit of the '%Y%m%d%H%M%S' of a workflow id.         *)
(***************************************************************************)
MaxInitiate == 2
MaxSeconds == 6

\* the workflow types asked for (the last has no template) and the data
WorkflowTypes == DOMAIN InitialWorkflowTemplates \cup { "permit_renewal" }
WorkflowData == { [vendor |-> "Acme Paving"] }

\* f"WF-{datetime.now().strftime('%Y%m%d%H%M%S')}"
WorkflowId(at) == << "WF-", at >>

\* dict.get(key) on a dict kept as its items in insertion order; 0 for None
DictGet(dict, key) ==
    IF \E i \in 1..Len(dict) : dict[i].key = key
    THEN dict[CHOOSE i \in 1..Len(dict) : dict[i].key = key].value
    ELSE 0

\* dict[key] = value: a key already there keeps its place
DictSet(dict, key, value) ==
    IF \E i \in 1..Len(dict) : dict[i].key = key
    THEN [i \in 1..Len(dict) |->
             IF dict[i].key = key THEN [key |-> key, value |-> value]
             ELSE dict[i]]
    ELSE Append(dict, [key |-> key, value |-> value])

\* template["steps"].copy(): a new list of the same step dicts
ShallowCopy(workflow_type) ==
    [i \in 1..Len(workflow_templates[workflow_type].steps) |->
        [template |-> workflow_type, at |-> i]]

\* the step dict a reference points to
StepAt(ref) == workflow_templates[ref.template].steps[ref.at]

\* ButlerCore.log_action("system", action, "workflow", INTERNAL, data): the
\* entry holds the hash of the data, kept here as the data hashed
LogAction(trail, action, data) ==
    Append(trail, [timestamp |-> now, user_id |-> "system", action |-> action,
                   system |-> "workflow", security_level |-> "INTERNAL",
                   data_hash |-> << "sha256", data >>])

\* the variables of the document store but the clock
rag_vars_but_now ==
    << documents, document_chunks, embedder, vector_index, index_file,
       n_ingest, tasks, last, query, hits, results, stats >>

\* initiate_workflow: a synchronous method.  An unknown type returns None
\* after the id was computed; otherwise the instance is stored under its id,
\* a task is created for its first step (it runs when the event loop gets
\* to it) and the action is logged
InitiateWorkflow(workflow_type, workflow_data) ==
    /\ n_initiate < MaxInitiate
    /\ n_initiate' = n_initiate + 1
    /\ LET workflow_id == WorkflowId(now)
       IN  IF workflow_type \notin DOMAIN workflow_templates
           THEN /\ initiated' = NoneStr
                /\ UNCHANGED << workflow_templates, instances,
                                active_workflows, step_tasks, audit_trail >>
           ELSE LET template == workflow_templates[workflow_type]
                    workflow_instance ==
                        [workflow_id |-> workflow_id,
                         type |-> workflow_type,
                         status |-> "initiated",
                         current_step |-> 0,
                         steps |-> ShallowCopy(workflow_type),
                         data |-> workflow_data,
                         started |-> now,
                         estimated_completion |->
                             [from |-> now, hours |-> template.total_duration],
                         notifications_sent |-> << >>,
                         completed |-> Absent]
                IN  /\ instances' = Append(instances, workflow_instance)
                    /\ active_workflows' =
                           DictSet(active_workflows, workflow_id,
                                   Len(instances) + 1)
                    /\ step_tasks' =
                           Append(step_tasks,
                                  [workflow_id |-> workflow_id, pc |-> "created",
                                   workflow |-> 0, step |-> 0, wake |-> 0,
                                   frames |-> << >>])
                    /\ audit_trail' =
                           LogAction(audit_trail,
                                     << "workflow_initiated_", workflow_type >>,
                                     [workflow_id |-> workflow_id,
                                      type |-> workflow_type])
                    /\ initiated' = workflow_id
                    /\ UNCHANGED workflow_templates
    /\ UNCHANGED << rag_vars, answer_vars, tool_vars, api_call, chat_vars >>

\* _process_workflow_step from its first statement to its await of
\* asyncio.sleep, or to its return when there is no such workflow or no step
\* left: the workflow is looked up by id, whatever instance the caller held
EnterStep(insts, workflow_id) ==
    LET w == DictGet(active_workflows, workflow_id)
    IN  IF w = 0
        THEN [pc |-> "returned", instances |-> insts, workflow |-> 0, step |-> 0]
        ELSE IF insts[w].current_step >= Len(insts[w].steps)
        THEN [pc |-> "returned",
              instances |-> [insts EXCEPT ![w].status = "completed"],
              workflow |-> 0, step |-> 0]
        ELSE [pc |-> "sleeping", instances |-> insts, workflow |-> w,
              step |-> insts[w].current_step + 1]

\* the log_action calls made while the calls of one task return: the call
\* that returns first logs its step, then each caller, from the innermost
RECURSIVE Unwind(_, _, _)
Unwind(trail, workflow_id, frames) ==
    IF frames = << >> THEN trail
    ELSE Unwind(LogAction(trail, "workflow_step_completed",
                          [workflow_id |-> workflow_id,
                           step |-> frames[Len(frames)]]),
                workflow_id, SubSeq(frames, 1, Len(frames) - 1))

TaskDone(task) ==
    [task EXCEPT !.pc = "done", !.workflow = 0, !.step = 0, !.wake = 0,
                 !.frames = << >>]

\* the event loop starts a task created by initiate_workflow
StartStepTask(t) ==
    /\ t \in 1..Len(step_tasks)
    /\ step_tasks[t].pc = "created"
    /\ LET entered == EnterStep(instances, step_tasks[t].workflow_id)
       IN  /\ instances' = entered.instances
           /\ step_tasks' =
                  [step_tasks EXCEPT ![t] =
                      IF entered.pc = "returned" THEN TaskDone(@)
                      ELSE [@ EXCEPT !.pc = "sleeping",
                                     !.workflow = entered.workflow,
                                     !.step = entered.step,
                                     !.wake = now + 1]]
    /\ UNCHANGED << workflow_templates, active_workflows, audit_trail,
                    initiated, n_initiate >>
    /\ UNCHANGED << rag_vars, answer_vars, tool_vars, api_call, chat_vars >>

\* a task wakes from asyncio.sleep(1), a second or more after it went to
\* sleep: it marks the step dict it holds, advances the instance it holds
\* and, when that instance has more steps, calls _process_workflow_step
\* again, which runs to its own sleep or return; on a return the calls of
\* the task log their steps and the task ends
WakeStepTask(t) ==
    /\ t \in 1..Len(step_tasks)
    /\ step_tasks[t].pc = "sleeping"
    /\ now >= step_tasks[t].wake
    /\ LET task     == step_tasks[t]
           w        == task.workflow
           ref      == instances[w].steps[task.step]
           advanced == [instances EXCEPT ![w].current_step = @ + 1]
           frames   == Append(task.frames, StepAt(ref).step)
       IN  /\ workflow_templates' =
                  [workflow_templates EXCEPT
                      ![ref.template].steps[ref.at].completed = now,
                      ![ref.template].steps[ref.at].status = "completed"]
           /\ IF advanced[w].current_step < Len(advanced[w].steps)
              THEN LET entered == EnterStep(advanced, task.workflow_id)
                   IN  /\ instances' = entered.instances
                       /\ IF entered.pc = "sleeping"
                          THEN /\ step_tasks' =
                                      [step_tasks EXCEPT ![t] =
                                          [@ EXCEPT !.workflow = entered.workflow,
                                                    !.step = entered.step,
                                                    !.wake = now + 1,
                                                    !.frames = frames]]
                               /\ UNCHANGED audit_trail
                          ELSE /\ step_tasks' =
                                      [step_tasks EXCEPT ![t] = TaskDone(@)]
                               /\ audit_trail' =
                                      Unwind(audit_trail, task.workflow_id,
                                             frames)
              ELSE /\ instances' =
                          [advanced EXCEPT ![w].status = "completed",
                                           ![w].completed = now]
                   /\ step_tasks' = [step_tasks EXCEPT ![t] = TaskDone(@)]
                   /\ audit_trail' =
                          Unwind(audit_trail, task.workflow_id, frames)
    /\ UNCHANGED << active_workflows, initiated, n_initiate >>
    /\ UNCHANGED << rag_vars, answer_vars, tool_vars, api_call, chat_vars >>

\* the system clock shows the next second
SecondPasses ==
    /\ now < MaxSeconds
    /\ now' = now + 1
    /\ UNCHANGED << rag_vars_but_now, answer_vars, tool_vars, ext_vars >>

NextWorkflows ==
    \/ \E workflow_type \in WorkflowTypes, workflow_data \in WorkflowData :
           InitiateWorkflow(workflow_type, workflow_data)
    \/ \E t \in 1..MaxInitiate : StartStepTask(t)
    \/ \E t \in 1..MaxInitiate : WakeStepTask(t)
    \/ SecondPasses

SpecWorkflows == Init /\ [][NextWorkflows]_vars

(***************************************************************************)
(* The conversation context: OllamaIntegration.get_contextual_response and *)
(* clear_context.                                                          *)
(***************************************************************************)
max_context_messages == 10
MaxChat == 11
MaxPending == 1

\* the system_prompts of get_contextual_response
SystemPrompts ==
    [general |->
        "You are BUTLER, an AI assistant for Dallas County government operations.\n            You help with email management, operational tasks, and provide intelligent insights.\n            Be professional, concise, and helpful.",
     emergency |->
        "You are BUTLER responding to an emergency situation.\n            Provide clear, immediate, actionable guidance.\n            Focus on safety and proper emergency protocols.",
     technical |->
        "You are BUTLER providing technical assistance.\n            Give clear technical explanations and step-by-step solutions.",
     administrative |->
        "You are BUTLER assisting with administrative tasks.\n            Provide efficient solutions for government operations and procedures."]

\* system_prompts.get(conversation_type, system_prompts["general"])
SystemPromptFor(conversation_type) ==
    IF conversation_type \in DOMAIN SystemPrompts
    THEN SystemPrompts[conversation_type]
    ELSE SystemPrompts["general"]

\* the conversation types passed (the last has no system prompt of its own)
ConversationTypes == { "general", "emergency", "legal" }

\* the n-th message a user sends, and the text the backend completes the
\* prompt of that message with
ChatMessage(n) == << "Message ", n >>
ChatCompletion(message) == << "Answer to: " >> \o message

\* how the backend ends the request of a call
ChatOutcomes == {"completion"}

\* the prompt built from the last five entries of the context window
\*   "\n".join(f"{msg['role']}: {msg['content']}" for msg in window[-5:])
ContextualPrompt(window, message) ==
    IF window = << >> THEN message
    ELSE LET recent == PySlice(window, -5, Len(window))
         IN  << "Previous context:\n" >>
             \o FlatRange([i \in 1..Len(recent) |->
                    (IF i = 1 THEN << >> ELSE << "\n" >>)
                    \o << recent[i].role, ": " >> \o recent[i].content],
                    1, Len(recent))
             \o << "\n\nCurrent message: " >> \o message

\* a window that is never trimmed
TrimContextNever(window) == window

\* if len(window) > self.max_context_messages * 2:
\*     window = window[-self.max_context_messages * 2:]
TrimContext(window) ==
    IF Len(window) > max_context_messages * 2
    THEN PySlice(window, -(max_context_messages * 2), Len(window))
    ELSE window

\* get_contextual_response up to its first suspension: the prompt is built
\* from the window as it is now, and generate_response is awaited, which
\* first awaits initialize() when there is no session
GetContextualResponse(message, conversation_type) ==
    /\ n_chat < MaxChat
    /\ Len(chats) < MaxPending
    /\ n_chat' = n_chat + 1
    /\ chats' = Append(chats,
                       [message |-> message,
                        conversation_type |-> conversation_type,
                        pc |-> IF session = "None" THEN "initialize" ELSE "post",
                        request |-> BuildPrompt(
                                        ContextualPrompt(context_window, message),
                                        SystemPromptFor(conversation_type))])
    /\ UNCHANGED << context_window, session >>
    /\ UNCHANGED << butler, ask, request, reply, n_ask, n_post >>
    /\ UNCHANGED << rag_vars, tool_vars, api_call, workflow_vars >>

\* OllamaIntegration.initialize, awaited by the generate_response of a call
ChatInitialize(c) ==
    /\ c \in 1..Len(chats)
    /\ chats[c].pc = "initialize"
    /\ session' = "open"
    /\ chats' = [chats EXCEPT ![c].pc = "post"]
    /\ UNCHANGED << context_window, n_chat >>
    /\ UNCHANGED << butler, ask, request, reply, n_ask, n_post >>
    /\ UNCHANGED << rag_vars, tool_vars, api_call, workflow_vars >>

\* the request of a call ends and generate_response returns: the message and
\* the content of the response are appended, the window is trimmed, and the
\* call returns the content
ChatRespond(c, outcome) ==
    /\ c \in 1..Len(chats)
    /\ chats[c].pc = "post"
    /\ LET response == ResponseAfter(outcome, ChatCompletion(chats[c].message))
       IN  context_window' =
               TrimContext(context_window
                           \o << [role |-> "user", content |-> chats[c].message],
                                 [role |-> "assistant",
                                  content |-> response.content] >>)
    /\ chats' = [i \in 1..(Len(chats) - 1) |->
                    IF i < c THEN chats[i] ELSE chats[i + 1]]
    /\ UNCHANGED << n_chat, answer_vars >>
    /\ UNCHANGED << rag_vars, tool_vars, api_call, workflow_vars >>

\* clear_context
ClearContext ==
    /\ context_window' = << >>
    /\ UNCHANGED << chats, n_chat, answer_vars >>
    /\ UNCHANGED << rag_vars, tool_vars, api_call, workflow_vars >>

NextContext ==
    \/ \E conversation_type \in ConversationTypes :
           GetContextualResponse(ChatMessage(n_chat + 1), conversation_type)
    \/ \E c \in 1..MaxPending : ChatInitialize(c)
    \/ \E c \in 1..MaxPending, outcome \in ChatOutcomes : ChatRespond(c, outcome)
    \/ ClearContext

SpecContext == Init /\ [][NextContext]_vars

(***************************************************************************)
(* C21.  Generating a document with a template name that is not defined    *)
(* ends in an error outcome, distinct from the missing-variable warning:   *)
(* RAGSystem.generate_document raises and returns and logs nothing, and    *)
(* the HTTP endpoint answers with success False and no document.           *)
(***************************************************************************)
C21_UnknownTemplateIsAnError ==
    /\ (generation.pc = "done"
            /\ generation.template_name \notin DOMAIN Templates)
        => /\ generation.raised = "ValueError"
           /\ generation.returned.type = "None"
           /\ generation.logged = << >>
    /\ (api_call.pc = "done" /\ api_call.body.kind = "object"
            /\ TemplateTypeOf(api_call.body) \notin DOMAIN ApiTemplates)
        => /\ api_call.response.success = FALSE
           /\ api_call.status # "200"
           /\ api_call.response.document = << >>

(***************************************************************************)
(* C22.  With no filter active, query_documents returns exactly            *)
(* min(top_k, number of vectors in the index) results, result i being the  *)
(* chunk whose vector has the i-th ordinal the search returned; over an    *)
(* empty index it returns the empty list.                                  *)
(***************************************************************************)
C22_UnfilteredReturnsEveryNearest ==
    (query # NoQuery /\ ~Truthy(query.department) /\ ~Truthy(query.doc_type))
    => /\ Len(results) = Min(query.top_k, Len(vector_index))
       /\ \A i \in 1..Len(results) :
              /\ hits[i].idx >= 0
              /\ results[i].document_id = ChunkAtOrdinal(hits[i].idx).doc_id
              /\ results[i].chunk = ChunkAtOrdinal(hits[i].idx).chunk_text
       /\ vector_index = << >> => results = << >>

(***************************************************************************)
(* C23.  Every result of query_documents satisfies the filters given (its  *)
(* department is the department filter, its doc_type the doc_type filter), *)
(* its chunk text is a stored chunk of the document its document id names, *)
(* and there are never more than top_k results.                            *)
(***************************************************************************)
\* the text is in a row of document_chunks of document id, and in the chunk
\* list of that document's row
IsStoredChunkOf(text, id) ==
    /\ \E c \in 1..Len(document_chunks) :
           /\ document_chunks[c].doc_id = id
           /\ document_chunks[c].chunk_text = text
    /\ \E d \in 1..Len(documents) :
           /\ documents[d].id = id
           /\ \E i \in 1..Len(documents[d].chunks.json) :
                  documents[d].chunks.json[i] = text

C23_ResultsMatchFiltersAndStore ==
    query # NoQuery
    => /\ Len(results) <= query.top_k
       /\ \A i \in 1..Len(results) :
              /\ query.department # NoneStr
                    => results[i].department = query.department
              /\ query.doc_type # NoneStr
                    => results[i].doc_type = query.doc_type
              /\ IsStoredChunkOf(results[i].chunk, results[i].document_id)

\* a filtered query over chunks of two departments: a fetched row was
\* dropped and another one returned
C23_Witness ==
    /\ query # NoQuery /\ query.department = "court"
    /\ Len(hits) = 2 /\ hits[2].idx >= 0
    /\ Len(results) = 1
    /\ \E d \in 1..Len(documents) :
           documents[d].indexed /\ documents[d].department = "clerk"

(***************************************************************************)
(* C24.  On the primary path (a butler core with an ai_engine, the backend *)
(* completing the prompt) the request sent to the backend holds, between   *)
(* its heading and the question, the title and the chunk text of the first *)
(* three results in rank order and of no other result, and answer_question *)
(* returns the completion of the backend unchanged, raising nothing.       *)
(***************************************************************************)
\* title and chunk text of results from..upto, two newlines between entries
RECURSIVE TitlesAndChunks(_, _, _)
TitlesAndChunks(docs, from, upto) ==
    IF from > upto THEN << >>
    ELSE << "Document: ", docs[from].title, "\n" >> \o docs[from].chunk
         \o (IF from < upto THEN << "\n\n" >> ELSE << >>)
         \o TitlesAndChunks(docs, from + 1, upto)

C24_PrimaryPathSendsTopThree ==
    (ask.pc = "done" /\ ask.via = "backend" /\ reply.outcome = "completion")
    => /\ ask.raised = "none"
       /\ ask.answer \in Completions
       /\ ask.answer = reply.content
       /\ request =
              << "System: ", SystemPrompt, "\n\n", "User: ",
                 "Based on the following Texas County documents, answer the question.\n\nContext Documents:\n" >>
              \o TitlesAndChunks(ask.context_docs, 1,
                                 Min(3, Len(ask.context_docs)))
              \o << "\n\nQuestion: ", ask.question,
                    "\n\nProvide a detailed answer based on the documents. If the documents don't contain enough information, say so.",
                    "\nAssistant:" >>

\* an answer of the backend to a question asked with four results, the
\* fourth of another document than the first three
C24_Witness ==
    /\ ask.pc = "done" /\ ask.via = "backend" /\ reply.outcome = "completion"
    /\ Len(ask.context_docs) = 4
    /\ \A i \in 1..3 : ask.context_docs[i].title # ask.context_docs[4].title
    /\ n_post = ask.posts_before + 1

(***************************************************************************)
(* C25.  However concurrent process_document calls on different files      *)
(* interleave, the rows of document_chunks are in the order in which their *)
(* vectors were added to the index (row o + 1 holds the chunk of the       *)
(* vector at ordinal o), and the chunks of one ingestion occupy a          *)
(* contiguous range of ordinals, in the order of its chunk list.           *)
(***************************************************************************)
C25_ConcurrentIngestionsKeepOrder ==
    /\ RowsFollowIndex
    /\ \A c \in 1..Len(document_chunks) :
           LoadedIndex[c] = Embed(document_chunks[c].chunk_text)
    /\ \A a, b \in 1..Len(document_chunks) :
           (a < b /\ document_chunks[a].doc_id = document_chunks[b].doc_id)
           => /\ \A c \in a..b :
                     document_chunks[c].doc_id = document_chunks[a].doc_id
              /\ document_chunks[b].chunk_index =
                     document_chunks[a].chunk_index + (b - a)

\* the call on policy.txt began first and was suspended in its read; the
\* call on brief.PDF began and ended meanwhile; policy.txt was indexed after
C25_Witness ==
    /\ last.number = 1 /\ last.seq = 2 /\ last.raised = "none"
    /\ last.path = PolicyTxt
    /\ Len(documents) = 2
    /\ documents[1].title = "brief" /\ documents[1].indexed
    /\ documents[2].title = "policy" /\ documents[2].indexed
    /\ Len(document_chunks) = 3

(***************************************************************************)
(* C26.  Whenever no ingestion is in progress, the vector index holds as   *)
(* many vectors as document_chunks has rows, and that is the sum of the    *)
(* lengths of the chunk lists of the documents flagged indexed; the        *)
(* statistics report these counts, and never more indexed documents than   *)
(* documents.                                                              *)
(***************************************************************************)
\* the sum of the chunk-list lengths of the indexed rows among the first d
RECURSIVE IndexedChunkCount(_)
IndexedChunkCount(d) ==
    IF d = 0 THEN 0
    ELSE IndexedChunkCount(d - 1)
         + (IF documents[d].indexed THEN Len(documents[d].chunks.json) ELSE 0)

C26_CountsAgree ==
    /\ tasks = << >>
        => /\ Len(LoadedIndex) = Len(document_chunks)
           /\ Len(document_chunks) = IndexedChunkCount(Len(documents))
    /\ stats # NoStats
        => /\ stats.indexed_documents <= stats.total_documents
           /\ stats.total_documents = Len(documents)
           /\ tasks = << >>
                 => stats.total_chunks = IndexedChunkCount(Len(documents))

\* statistics taken with no ingestion in progress, over one indexed document
\* of two chunks and one document whose ingestion failed
C26_Witness ==
    /\ tasks = << >>
    /\ stats # NoStats
    /\ stats.total_documents = 2 /\ stats.indexed_documents = 1
    /\ stats.total_chunks = 2
    /\ Len(LoadedIndex) = 2

(***************************************************************************)
(* C27.  A document is flagged indexed only if each chunk of its chunk     *)
(* list has a row in document_chunks, the i-th chunk with chunk_index      *)
(* i - 1, the rows in chunk-list order and no two rows of the table with   *)
(* the same chunk id, and the vector of each of these chunks is in the     *)
(* vector index; a stored document whose ingestion did not complete (the   *)
(* call raised after the document row was stored, or the document has no   *)
(* chunk row) is flagged indexed = 0.                                      *)
(***************************************************************************)
\* the row of document_chunks that holds chunk i of the document row
RowOfChunk(row, i) ==
    {c \in ChunkRowsOf(row.id) : document_chunks[c].chunk_index = i - 1}

C27_IndexedMeansFullyIndexed ==
    /\ \A d \in 1..Len(documents) :
           documents[d].indexed
           => LET row == documents[d]
                  n   == Len(row.chunks.json)
              IN  /\ Cardinality(ChunkRowsOf(row.id)) = n
                  /\ \A i \in 1..n :
                         \E c \in RowOfChunk(row, i) :
                             /\ RowOfChunk(row, i) = {c}
                             /\ document_chunks[c].chunk_text = row.chunks.json[i]
                             /\ c <= Len(LoadedIndex)
                             /\ LoadedIndex[c] = Embed(row.chunks.json[i])
                             /\ i > 1 => c - 1 \in RowOfChunk(row, i - 1)
    /\ \A a, b \in 1..Len(document_chunks) :
           a # b => document_chunks[a].chunk_id # document_chunks[b].chunk_id
    /\ \A d \in 1..Len(documents) :
           ChunkRowsOf(documents[d].id) = {} => ~documents[d].indexed
    /\ (last.raised # "none" /\ last.stage \in {"encode", "add"})
        => \E d \in 1..Len(documents) :
               documents[d].id = last.id /\ ~documents[d].indexed

\* a document of two chunks was indexed, then the ingestion of another file
\* raised in encode after its row was stored
C27_Witness ==
    /\ last.raised = "RuntimeError" /\ last.stage = "encode"
    /\ Len(documents) = 2
    /\ documents[1].indexed /\ Len(documents[1].chunks.json) = 2
    /\ ~documents[2].indexed /\ documents[2].chunks.json # << >>
    /\ Len(document_chunks) = 2

(***************************************************************************)
(* C28.  What generate_document returns depends only on the template and   *)
(* on the mapping from keys to values: applying the variables in any other *)
(* order gives the same text, and that text is the template with each      *)
(* placeholder of a key replaced by the value of the key, the text         *)
(* inserted as a value being left as it is.                                *)
(***************************************************************************)
\* the same key-value pairs in every order
Reorderings(variables) ==
    LET n == Len(variables)
    IN  { [i \in 1..n |-> variables[p[i]]] :
            p \in { q \in [1..n -> 1..n] :
                      \A i, j \in 1..n : i # j => q[i] # q[j] } }

C28_FillIsOrderIndependent ==
    (generation.pc = "done" /\ generation.returned.type = "str")
    => LET template == Templates[generation.template_name].template
       IN  /\ \A variables \in Reorderings(generation.variables) :
                  FillIn(template, variables) = generation.returned.text
           /\ generation.returned.text =
                  FilledAtOnce(template, generation.variables)

(***************************************************************************)
(* C29.  Whatever initiate_workflow calls are made, several in one second  *)
(* included, and however their tasks interleave: every active workflow has *)
(* 0 <= current_step <= its number of steps, and has status completed only *)
(* when all its steps are marked completed; a task marks a step that was   *)
(* not marked before and whose earlier steps are all marked; and marking a *)
(* step of one workflow changes neither the workflow templates nor any     *)
(* other workflow instance or its steps.                                   *)
(***************************************************************************)
\* the instances self.active_workflows maps to
ActiveInstances ==
    { active_workflows[i].value : i \in 1..Len(active_workflows) }

\* step k of instance w is marked completed
StepMarked(w, k) == StepAt(instances[w].steps[k]).status = "completed"

\* task t wakes in this step and marks the step it holds
Marks(t) == step_tasks[t].pc = "sleeping" /\ step_tasks'[t] # step_tasks[t]

C29_WorkflowsAdvanceStepByStep ==
    /\ [](\A w \in ActiveInstances :
              /\ 0 <= instances[w].current_step
              /\ instances[w].current_step <= Len(instances[w].steps)
              /\ instances[w].status = "completed"
                    => \A k \in 1..Len(instances[w].steps) : StepMarked(w, k))
    /\ [][\A t \in 1..Len(step_tasks) :
              Marks(t)
              => LET w == step_tasks[t].workflow
                     k == step_tasks[t].step
                 IN  /\ ~StepMarked(w, k)
                     /\ \A j \in 1..(k - 1) : StepMarked(w, j)
                     /\ workflow_templates' = workflow_templates
                     /\ \A v \in 1..Len(instances) :
                            v # w
                            => /\ instances'[v] = instances[v]
                               /\ \A j \in 1..Len(instances[v].steps) :
                                      StepAt(instances[v].steps[j])' =
                                          StepAt(instances[v].steps[j])
       ]_vars

(***************************************************************************)
(* C30.  After any get_contextual_response and clear_context calls the     *)
(* context window holds at most 2 x max_context_messages (20) entries,     *)
(* alternating a user message and the assistant's answer to it; a call     *)
(* that completes leaves in it the most recent entries in the order they   *)
(* were recorded (the window before, then the message and its answer, the  *)
(* oldest entries dropped beyond 20); clear_context leaves it empty.       *)
(***************************************************************************)
\* the last n entries of a list, all of them when it has no more than n
LastEntries(seq, n) ==
    IF Len(seq) <= n THEN seq ELSE SubSeq(seq, Len(seq) - n + 1, Len(seq))

\* the entries are a user message and an answer to it, in turn
Alternates(window) ==
    /\ Len(window) % 2 = 0
    /\ \A i \in 1..Len(window) :
           IF i % 2 = 1
           THEN window[i].role = "user"
           ELSE /\ window[i].role = "assistant"
                /\ \E outcome \in PostOutcomes :
                       window[i].content =
                           ResponseAfter(outcome,
                               ChatCompletion(window[i - 1].content)).content

C30_ContextWindowIsBounded ==
    /\ [](Len(context_window) <= 2 * 10 /\ Alternates(context_window))
    /\ [][ /\ Len(chats') < Len(chats)
              => \E c \in 1..Len(chats) :
                     /\ chats' = [i \in 1..(Len(chats) - 1) |->
                                     IF i < c THEN chats[i] ELSE chats[i + 1]]
                     /\ Len(context_window') >= 2
                     /\ context_window'[Len(context_window') - 1] =
                            [role |-> "user", content |-> chats[c].message]
                     /\ SubSeq(context_window', 1, Len(context_window') - 2) =
                            LastEntries(context_window, 2 * 10 - 2)
           /\ (Len(chats') >= Len(chats) /\ context_window' # context_window)
              => context_window' = << >> ]_vars

\* the eleventh exchange has been recorded with no clear_context since the
\* first: the window is full and the first exchange has been dropped
C30_Witness ==
    /\ Len(context_window) = 20
    /\ context_window[1].content = ChatMessage(2)
    /\ context_window[19].content = ChatMessage(11)
    /\ chats = << >>

====
